---------------------------- MODULE Spec2Model ----------------------------
(***************************************************************************)
(* netupi23: the timer engine, the record store and the public core API    *)
(* of src/core/lib.rs as a state machine.                                  *)
(*                                                                         *)
(* Time is a monotone integer clock (`now`, the value of Utc::now()).      *)
(* Option<T> is a sequence: None is <<>>, Some(x) is <<x>>.                *)
(* A file is [kind, ...]: "missing", "malformed" (present, but serde       *)
(* cannot parse it) or "ok" with its parsed content.  A failing            *)
(* tokio::fs::write returns Err(Io) and leaves the file as it was.         *)
(***************************************************************************)
EXTENDS Integers, Sequences, FiniteSets, TLC

VARIABLES
    now,              \* Utc::now()
    sessions_file,    \* PersistenceManager.sessions_file on disk
    config_file,      \* PersistenceManager.config_file on disk
    engine,           \* "none" before TimerEngine::new succeeded, then "ready"
    data,             \* TimerEngine.data
    config,           \* TimerEngine.config
    current_session,  \* TimerEngine.current_session
    event_sender,     \* TimerEngine.event_sender: <<>> or <<"tx">>
    rx_alive,         \* the receiver handed out by subscribe_events is not dropped
    events,           \* events delivered into the channel, oldest first
    next_id,          \* the next value uuid::Uuid::new_v4() returns
    discarded,        \* history: ids of in-flight sessions replaced by a start
    last,             \* history: the last call, its arguments and its result
    pc,               \* concurrent callers: where each is in its call, its locals
    locks,            \* the RwLocks of TimerEngine: who holds data, config, current_session
    last_start,       \* history: id of the session of the start that returned last
    display           \* the shell's timer display: its fields in InteractiveMode and its tasks

vars == <<now, sessions_file, config_file, engine, data, config, current_session,
          event_sender, rx_alive, events, next_id, discarded, last,
          pc, locks, last_start, display>>

\* ------------------------------------------------------------------ bounds
MaxTime == 1
MaxIds == 2
MaxEvents == 2
MaxCallers == 2
MaxTasks == 2

\* ------------------------------------------------------------------ types
None == <<>>
Some(x) == <<x>>
IsSome(o) == o # <<>>
Unwrap(o) == o[1]

TimerType == {"Stopwatch", "PomodoroWork", "PomodoroShortBreak",
              "PomodoroLongBreak", "CustomTimer"}

TimerState == {"Idle", "Running", "Paused", "Completed"}

TimerEvent == {"Started", "Paused", "Resumed", "Stopped", "Completed", "Tick"}

Projects == {"A", "B"}
Descriptions == {"d"}

\* impl Default for TimerConfig (durations in minutes)
TimerConfigDefault ==
    [pomodoro_work_duration |-> 25,
     pomodoro_short_break_duration |-> 5,
     pomodoro_long_break_duration |-> 15,
     long_break_interval |-> 4,
     auto_start_breaks |-> FALSE,
     auto_start_work |-> FALSE]

\* a config a user stored with save_config
TimerConfigCustom ==
    [pomodoro_work_duration |-> 2,
     pomodoro_short_break_duration |-> 1,
     pomodoro_long_break_duration |-> 3,
     long_break_interval |-> 2,
     auto_start_breaks |-> TRUE,
     auto_start_work |-> FALSE]

Configs == {TimerConfigDefault, TimerConfigCustom}

\* impl Default for TimerData
TimerDataDefault ==
    [timer_type |-> "Stopwatch",
     state |-> "Idle",
     target_duration |-> None,
     elapsed |-> 0,
     paused_time |-> 0,
     start_time |-> None,
     pause_start |-> None]

\* ------------------------------------------------------------ record store
Ok(v) == [ok |-> TRUE, err |-> "", value |-> v]
Err(e) == [ok |-> FALSE, err |-> e, value |-> <<>>]

OkFile(content) == [kind |-> "ok", content |-> content]
MissingFile == [kind |-> "missing", content |-> <<>>]
MalformedFile == [kind |-> "malformed", content |-> <<>>]

\* tokio::fs::write(path, json): Ok and the file holds json, or Err(Io) and
\* the file is as before
fs_write(file, content, write_ok) ==
    IF write_ok
    THEN [res |-> Ok(<<>>), file |-> OkFile(content), wrote |-> TRUE]
    ELSE [res |-> Err("Io"), file |-> file, wrote |-> FALSE]

\* load_sessions without the test for a missing file
load_sessions_reading(file) ==
    IF file.kind = "missing" THEN Err("Io")
    ELSE IF file.kind = "malformed" THEN Err("Serialization")
    ELSE Ok(file.content)

\* PersistenceManager::load_sessions
load_sessions(file) ==
    IF file.kind = "missing" THEN Ok(<<>>)
    ELSE IF file.kind = "malformed" THEN Err("Serialization")
    ELSE Ok(file.content)

\* Result::unwrap_or_default on a Result<Vec<WorkSession>, _>
unwrap_or_default(r) == IF r.ok THEN r.value ELSE <<>>

\* sessions.iter().position(|s| s.id == id): the first index, 0 for None
position(sessions, id) ==
    IF \E i \in 1..Len(sessions) : sessions[i].id = id
    THEN CHOOSE i \in 1..Len(sessions) :
            /\ sessions[i].id = id
            /\ \A j \in 1..(i - 1) : sessions[j].id # id
    ELSE 0

\* save_session that always pushes
upsert_push(sessions, session) == Append(sessions, session)

\* save_session that moves a record it replaces to the end
upsert_moving_to_end(sessions, session) ==
    Append(SelectSeq(sessions, LAMBDA s : s.id # session.id), session)

\* the if let Some(pos) ... else push of save_session
upsert(sessions, session) ==
    LET pos == position(sessions, session.id)
    IN  IF pos # 0 THEN [sessions EXCEPT ![pos] = session]
        ELSE Append(sessions, session)

\* PersistenceManager::save_session
save_session(file, session, write_ok) ==
    LET sessions == unwrap_or_default(load_sessions(file))
    IN  fs_write(file, upsert(sessions, session), write_ok)

\* save_config that keeps a config file that exists
save_config_keeping(file, cfg, write_ok) ==
    IF file.kind = "missing" THEN fs_write(file, cfg, write_ok)
    ELSE [res |-> Ok(<<>>), file |-> file, wrote |-> FALSE]

\* PersistenceManager::save_config
save_config(file, cfg, write_ok) == fs_write(file, cfg, write_ok)

\* load_config that returns the default without saving it
load_config_not_saving(file, write_ok) ==
    IF file.kind = "missing"
    THEN [res |-> Ok(TimerConfigDefault), file |-> file, wrote |-> FALSE]
    ELSE IF file.kind = "malformed"
    THEN [res |-> Err("Serialization"), file |-> file, wrote |-> FALSE]
    ELSE [res |-> Ok(file.content), file |-> file, wrote |-> FALSE]

\* PersistenceManager::load_config: [res, file, wrote]
load_config(file, write_ok) ==
    IF file.kind = "missing"
    THEN LET w == save_config(file, TimerConfigDefault, write_ok)
         IN  [res |-> IF w.res.ok THEN Ok(TimerConfigDefault) ELSE w.res,
              file |-> w.file, wrote |-> w.wrote]
    ELSE IF file.kind = "malformed"
    THEN [res |-> Err("Serialization"), file |-> file, wrote |-> FALSE]
    ELSE [res |-> Ok(file.content), file |-> file, wrote |-> FALSE]

\* ------------------------------------------------------------ timer engine
\* the match with the two break durations exchanged
target_duration_swapped(timer_type, cfg) ==
    CASE timer_type = "PomodoroWork" -> Some(cfg.pomodoro_work_duration)
      [] timer_type = "PomodoroShortBreak" -> Some(cfg.pomodoro_long_break_duration)
      [] timer_type = "PomodoroLongBreak" -> Some(cfg.pomodoro_short_break_duration)
      [] OTHER -> None

\* the match on timer_type in start_work_session
target_duration_for(timer_type, cfg) ==
    CASE timer_type = "PomodoroWork" -> Some(cfg.pomodoro_work_duration)
      [] timer_type = "PomodoroShortBreak" -> Some(cfg.pomodoro_short_break_duration)
      [] timer_type = "PomodoroLongBreak" -> Some(cfg.pomodoro_long_break_duration)
      [] OTHER -> None

\* the TimerData with timer_type left at its default
started_data_default_type(timer_type, cfg, t) ==
    [timer_type |-> "Stopwatch",
     state |-> "Running",
     target_duration |-> target_duration_for(timer_type, cfg),
     elapsed |-> 0,
     paused_time |-> 0,
     start_time |-> Some(t),
     pause_start |-> None]

\* the TimerData start_work_session installs; t is Utc::now()
started_data(timer_type, cfg, t) ==
    [timer_type |-> timer_type,
     state |-> "Running",
     target_duration |-> target_duration_for(timer_type, cfg),
     elapsed |-> 0,
     paused_time |-> 0,
     start_time |-> Some(t),
     pause_start |-> None]

\* the WorkSession with the same id at every start
new_session_fixed_id(id, timer_type, project_name, description, t) ==
    [id |-> 1,
     session_type |-> timer_type,
     start_time |-> t,
     end_time |-> None,
     duration |-> 0,
     paused_duration |-> 0,
     description |-> description,
     tags |-> IF IsSome(project_name) THEN <<Unwrap(project_name)>> ELSE <<>>]

\* the WorkSession start_work_session creates; t is its own Utc::now()
new_session(id, timer_type, project_name, description, t) ==
    [id |-> id,
     session_type |-> timer_type,
     start_time |-> t,
     end_time |-> None,
     duration |-> 0,
     paused_duration |-> 0,
     description |-> description,
     tags |-> IF IsSome(project_name) THEN <<Unwrap(project_name)>> ELSE <<>>]

\* now.signed_duration_since(start_time) - data.paused_time
elapsed_at(d, t) == (t - Unwrap(d.start_time)) - d.paused_time

\* get_current_state without the test of the state
refreshed_any_state(d, t) ==
    IF IsSome(d.start_time)
    THEN [d EXCEPT !.elapsed = elapsed_at(d, t)]
    ELSE d

\* the body of get_current_state under the write lock
refreshed(d, t) ==
    IF d.state = "Running" /\ IsSome(d.start_time)
    THEN [d EXCEPT !.elapsed = elapsed_at(d, t)]
    ELSE d

\* final_session without the assignment of duration
final_session_no_duration(session, d, t) ==
    [session EXCEPT !.end_time = Some(t),
                    !.paused_duration = d.paused_time]

\* final_session that recomputes the duration from the clock at the stop
final_session_recomputing(session, d, t) ==
    [session EXCEPT !.end_time = Some(t),
                    !.duration = elapsed_at(d, t),
                    !.paused_duration = d.paused_time]

\* final_session of stop_timer; t is Utc::now()
final_session(session, d, t) ==
    [session EXCEPT !.end_time = Some(t),
                    !.duration = d.elapsed,
                    !.paused_duration = d.paused_time]

\* a send that delivers the event twice
send_twice(ev) ==
    IF IsSome(event_sender) /\ rx_alive
    THEN Append(Append(events, ev), ev)
    ELSE events

\* sender.send(ev) with the result ignored: delivered only to a live receiver
send(ev) ==
    IF IsSome(event_sender) /\ rx_alive THEN Append(events, ev) ELSE events

CanSend == ~(IsSome(event_sender) /\ rx_alive) \/ Len(events) < MaxEvents

\* the record of a call: its name, arguments, returned value and whether it
\* wrote the sessions file
Call(op, args, res, wrote) ==
    [op |-> op, args |-> args, res |-> res, wrote |-> wrote]

\* ------------------------------------------------------ concurrent callers
\* the tasks that share one TimerEngine
Callers == 1..MaxCallers

\* a caller outside every call; inside a call: the label it is at, the
\* operation, its timer_type argument, the uuid its start will use and the
\* session its stop took; for a call that reads and rewrites the store also
\* its project argument, its local Vec<WorkSession>, its deleted_count,
\* whether it returned Ok, and (history) the ids of the sessions whose stop
\* was under way during it
NoCall == [at |-> "idle", op |-> "", timer_type |-> "", id |-> 0, session |-> None,
           project |-> "", sessions |-> <<>>, count |-> 0, ok |-> TRUE,
           met |-> {}]

\* RwLock::new for data, config and current_session: no writer (0), no
\* reader, and nobody in the queue in which tokio's RwLock keeps the tasks
\* that wait for data (it serves them first come, first served)
NoLocks == [data |-> 0, config |-> {}, session |-> 0, waiting |-> <<>>]

\* the display tasks the shell can spawn
Tasks == 1..MaxTasks

\* InteractiveMode::new for the display: no JoinHandle, no stop sender, line
\* 0; the main task is in neither display function (at, op), nor waiting for
\* a task (joining); no display task was spawned (spawned), none is alive,
\* no task's stop_receiver holds a message (signal), and (history) no task
\* has ended on polling an Idle engine (exited)
NoDisplay ==
    [handle |-> None, sender |-> None, line |-> 0,
     at |-> "idle", op |-> "", joining |-> 0,
     spawned |-> 0, alive |-> {}, signal |-> {}, exited |-> {}]

\* ------------------------------------------------------------------ state
Init ==
    /\ now = 0
    /\ sessions_file \in {MissingFile, MalformedFile, OkFile(<<>>)}
    /\ config_file \in {MissingFile, MalformedFile} \cup {OkFile(c) : c \in Configs}
    /\ engine = "none"
    /\ data = TimerDataDefault
    /\ config = TimerConfigDefault
    /\ current_session = None
    /\ event_sender = None
    /\ rx_alive = FALSE
    /\ events = <<>>
    /\ next_id = 1
    /\ discarded = {}
    /\ last = Call("init", <<>>, Ok(<<>>), FALSE)
    /\ pc = [c \in Callers |-> NoCall]
    /\ locks = NoLocks
    /\ last_start = 0
    /\ display = NoDisplay

\* the clock advances between calls
Tick ==
    /\ now < MaxTime
    /\ now' = now + 1
    /\ UNCHANGED <<sessions_file, config_file, engine, data, config, current_session,
                   event_sender, rx_alive, events, next_id, discarded, last>>
    /\ UNCHANGED <<pc, locks, last_start, display>>

\* TimerEngine::new (NetupiCore::new after PersistenceManager::new)
new(write_ok) ==
    /\ engine = "none"
    /\ LET r == load_config(config_file, write_ok)
       IN  /\ config_file' = r.file
           /\ engine' = IF r.res.ok THEN "ready" ELSE "none"
           /\ config' = IF r.res.ok THEN r.res.value ELSE config
           /\ last' = Call("new", <<>>, IF r.res.ok THEN Ok(<<>>) ELSE r.res, FALSE)
    /\ data' = TimerDataDefault
    /\ current_session' = None
    /\ event_sender' = None
    /\ UNCHANGED <<now, sessions_file, rx_alive, events, next_id, discarded>>
    /\ UNCHANGED <<pc, locks, last_start, display>>

\* TimerEngine::subscribe_events
subscribe_events ==
    /\ engine = "ready"
    /\ event_sender' = Some("tx")
    /\ rx_alive' = TRUE
    /\ events' = <<>>
    /\ last' = Call("subscribe_events", <<>>, Ok(<<>>), FALSE)
    /\ UNCHANGED <<now, sessions_file, config_file, engine, data, config,
                   current_session, next_id, discarded>>
    /\ UNCHANGED <<pc, locks, last_start, display>>

\* the subscriber drops its UnboundedReceiver
drop_receiver ==
    /\ IsSome(event_sender) /\ rx_alive
    /\ rx_alive' = FALSE
    /\ events' = <<>>
    /\ UNCHANGED <<now, sessions_file, config_file, engine, data, config,
                   current_session, event_sender, next_id, discarded, last>>
    /\ UNCHANGED <<pc, locks, last_start, display>>

\* start_work_session that first persists the in-flight session it replaces
start_work_session_persisting(timer_type, project_name, description, dt) ==
    /\ engine = "ready"
    /\ next_id <= MaxIds
    /\ now + dt <= MaxTime
    /\ CanSend
    /\ sessions_file' =
          IF IsSome(current_session)
          THEN save_session(sessions_file,
                            final_session(Unwrap(current_session), data, now), TRUE).file
          ELSE sessions_file
    /\ data' = started_data(timer_type, config, now)
    /\ current_session' =
          Some(new_session(next_id, timer_type, project_name, description, now + dt))
    /\ now' = now + dt
    /\ next_id' = next_id + 1
    /\ events' = send("Started")
    /\ discarded' = IF IsSome(current_session)
                    THEN discarded \cup {Unwrap(current_session).id}
                    ELSE discarded
    /\ last' = Call("start_work_session", <<timer_type, project_name, description>>,
                    Ok(<<>>), IsSome(current_session))
    /\ UNCHANGED <<config_file, engine, config, event_sender, rx_alive>>
    /\ UNCHANGED <<pc, locks, last_start, display>>

\* TimerEngine::start_work_session; the clock advances by dt between its two
\* Utc::now() calls
start_work_session(timer_type, project_name, description, dt) ==
    /\ engine = "ready"
    /\ next_id <= MaxIds
    /\ now + dt <= MaxTime
    /\ CanSend
    /\ data' = started_data(timer_type, config, now)
    /\ current_session' =
          Some(new_session(next_id, timer_type, project_name, description, now + dt))
    /\ now' = now + dt
    /\ next_id' = next_id + 1
    /\ events' = send("Started")
    /\ discarded' = IF IsSome(current_session)
                    THEN discarded \cup {Unwrap(current_session).id}
                    ELSE discarded
    /\ last' = Call("start_work_session", <<timer_type, project_name, description>>,
                    Ok(<<>>), FALSE)
    /\ UNCHANGED <<sessions_file, config_file, engine, config, event_sender, rx_alive>>
    /\ UNCHANGED <<pc, locks, last_start, display>>

\* TimerEngine::start_timer
start_timer(timer_type, dt) == start_work_session(timer_type, None, None, dt)

\* NetupiCore::start_work_session
core_start_work_session(project_name, description, dt) ==
    start_work_session("Stopwatch", Some(project_name), description, dt)

\* get_current_state that reports a timer with a target as Completed
get_current_state_completing ==
    /\ engine = "ready"
    /\ data' = IF IsSome(data.target_duration)
               THEN [refreshed(data, now) EXCEPT !.state = "Completed"]
               ELSE refreshed(data, now)
    /\ last' = Call("get_current_state", <<>>, Ok(data'), FALSE)
    /\ UNCHANGED <<now, sessions_file, config_file, engine, config, current_session,
                   event_sender, rx_alive, events, next_id, discarded>>
    /\ UNCHANGED <<pc, locks, last_start, display>>

\* TimerEngine::get_current_state
get_current_state ==
    /\ engine = "ready"
    /\ data' = refreshed(data, now)
    /\ last' = Call("get_current_state", <<>>, Ok(data'), FALSE)
    /\ UNCHANGED <<now, sessions_file, config_file, engine, config, current_session,
                   event_sender, rx_alive, events, next_id, discarded>>
    /\ UNCHANGED <<pc, locks, last_start, display>>

\* stop_timer that returns the error of a send nobody receives
stop_timer_needing_receiver(write_ok) ==
    /\ engine = "ready"
    /\ CanSend
    /\ LET unsent == IsSome(event_sender) /\ ~rx_alive
           fin == final_session(Unwrap(current_session),
                                [data EXCEPT !.state = "Idle"], now)
           w == IF IsSome(current_session)
                THEN save_session(sessions_file, fin, write_ok)
                ELSE [res |-> Ok(<<>>), file |-> sessions_file, wrote |-> FALSE]
       IN  /\ IsSome(current_session) \/ write_ok
           /\ sessions_file' = w.file
           /\ current_session' = None
           /\ data' = IF w.res.ok THEN TimerDataDefault
                      ELSE [data EXCEPT !.state = "Idle"]
           /\ events' = IF w.res.ok THEN send("Stopped") ELSE events
           /\ last' = Call("stop_timer", <<>>,
                           IF w.res.ok /\ unsent THEN Err("Config") ELSE w.res,
                           w.wrote)
    /\ UNCHANGED <<now, config_file, engine, config, event_sender, rx_alive,
                   next_id, discarded>>
    /\ UNCHANGED <<pc, locks, last_start, display>>

\* stop_timer that reads the in-flight session without taking it
stop_timer_keeping(write_ok) ==
    /\ engine = "ready"
    /\ CanSend
    /\ IF IsSome(current_session)
       THEN LET fin == final_session(Unwrap(current_session),
                                     [data EXCEPT !.state = "Idle"], now)
                w == save_session(sessions_file, fin, write_ok)
            IN  /\ sessions_file' = w.file
                /\ current_session' = current_session
                /\ IF w.res.ok
                   THEN /\ data' = TimerDataDefault
                        /\ events' = send("Stopped")
                   ELSE /\ data' = [data EXCEPT !.state = "Idle"]
                        /\ events' = events
                /\ last' = Call("stop_timer", <<>>, w.res, w.wrote)
       ELSE /\ write_ok
            /\ data' = TimerDataDefault
            /\ events' = send("Stopped")
            /\ last' = Call("stop_timer", <<>>, Ok(<<>>), FALSE)
            /\ UNCHANGED <<sessions_file, current_session>>
    /\ UNCHANGED <<now, config_file, engine, config, event_sender, rx_alive,
                   next_id, discarded>>
    /\ UNCHANGED <<pc, locks, last_start, display>>

\* stop_timer that resets TimerData before it returns the error of the save
stop_timer_resetting(write_ok) ==
    /\ engine = "ready"
    /\ CanSend
    /\ IF IsSome(current_session)
       THEN LET fin == final_session(Unwrap(current_session),
                                     [data EXCEPT !.state = "Idle"], now)
                w == save_session(sessions_file, fin, write_ok)
            IN  /\ sessions_file' = w.file
                /\ current_session' = None
                /\ data' = TimerDataDefault
                /\ events' = IF w.res.ok THEN send("Stopped") ELSE events
                /\ last' = Call("stop_timer", <<>>, w.res, w.wrote)
       ELSE /\ write_ok
            /\ data' = TimerDataDefault
            /\ events' = send("Stopped")
            /\ last' = Call("stop_timer", <<>>, Ok(<<>>), FALSE)
            /\ UNCHANGED <<sessions_file, current_session>>
    /\ UNCHANGED <<now, config_file, engine, config, event_sender, rx_alive,
                   next_id, discarded>>
    /\ UNCHANGED <<pc, locks, last_start, display>>

\* TimerEngine::stop_timer; write_ok is the outcome of the file write
stop_timer(write_ok) ==
    /\ engine = "ready"
    /\ CanSend
    /\ IF IsSome(current_session)
       THEN LET fin == final_session(Unwrap(current_session),
                                     [data EXCEPT !.state = "Idle"], now)
                w == save_session(sessions_file, fin, write_ok)
            IN  /\ sessions_file' = w.file
                /\ current_session' = None
                /\ IF w.res.ok
                   THEN /\ data' = TimerDataDefault
                        /\ events' = send("Stopped")
                   ELSE /\ data' = [data EXCEPT !.state = "Idle"]
                        /\ events' = events
                /\ last' = Call("stop_timer", <<>>, w.res, w.wrote)
       ELSE /\ write_ok
            /\ data' = TimerDataDefault
            /\ events' = send("Stopped")
            /\ last' = Call("stop_timer", <<>>, Ok(<<>>), FALSE)
            /\ UNCHANGED <<sessions_file, current_session>>
    /\ UNCHANGED <<now, config_file, engine, config, event_sender, rx_alive,
                   next_id, discarded>>
    /\ UNCHANGED <<pc, locks, last_start, display>>

\* a caller's WorkSession values for PersistenceManager::save_session; their
\* ids are the caller's own uuids, none of them one the engine generates
CallerSessions ==
    { [id |-> 0, session_type |-> "PomodoroWork", start_time |-> 0,
       end_time |-> None, duration |-> 25, paused_duration |-> 0,
       description |-> Some("d"), tags |-> <<"A">>],
      [id |-> 0, session_type |-> "Stopwatch", start_time |-> 0,
       end_time |-> Some(0), duration |-> 1, paused_duration |-> 0,
       description |-> None, tags |-> <<"A">>] }

\* a direct call of PersistenceManager::save_session
call_save_session(session, write_ok) ==
    /\ LET w == save_session(sessions_file, session, write_ok)
       IN  /\ sessions_file' = w.file
           /\ last' = Call("save_session", <<session>>, w.res, w.wrote)
    /\ UNCHANGED <<now, config_file, engine, data, config, current_session,
                   event_sender, rx_alive, events, next_id, discarded>>
    /\ UNCHANGED <<pc, locks, last_start, display>>

\* NetupiCore::get_sessions, a call of PersistenceManager::load_sessions
get_sessions ==
    /\ last' = Call("load_sessions", <<>>, load_sessions(sessions_file), FALSE)
    /\ UNCHANGED <<now, sessions_file, config_file, engine, data, config,
                   current_session, event_sender, rx_alive, events, next_id, discarded>>
    /\ UNCHANGED <<pc, locks, last_start, display>>

\* ------------------------------------------------------- project queries
MaxClock == 3

\* DateTime::date_naive: the calendar date of an instant; a day is two clock
\* units long
date_naive(t) == t \div 2

\* String::cmp on the project names of the model (byte order): a < b
name_rank(name) == CASE name = "A" -> 1 [] name = "B" -> 2
name_lt(a, b) == name_rank(a) < name_rank(b)

\* the condition without the end_time test
counts_as_project_unfinished(s) ==
    /\ s.session_type = "Stopwatch"
    /\ Len(s.tags) > 0

\* the condition of the loop in get_projects
counts_as_project(s) ==
    /\ s.session_type = "Stopwatch"
    /\ IsSome(s.end_time)
    /\ Len(s.tags) > 0

\* the condition without the session_type test
counts_today_any_type(s, today) ==
    /\ IsSome(s.end_time)
    /\ date_naive(Unwrap(s.end_time)) = today
    /\ Len(s.tags) > 0

\* the condition of the loop in get_today_summary
counts_today(s, today) ==
    /\ IsSome(s.end_time)
    /\ date_naive(Unwrap(s.end_time)) = today
    /\ s.session_type = "Stopwatch"
    /\ Len(s.tags) > 0

\* HashMap<String, Duration> as a function; HashMap::new()
EmptyMap == [k \in {} |-> 0]

\* *map.entry(key).or_insert(Duration::zero()) += d
entry_add(map, key, d) ==
    [k \in (DOMAIN map) \cup {key} |->
        IF k = key
        THEN (IF key \in DOMAIN map THEN map[key] ELSE 0) + d
        ELSE map[k]]

\* the loop of get_projects over the loaded sessions, first to last
RECURSIVE project_totals(_)
project_totals(sessions) ==
    IF sessions = <<>> THEN EmptyMap
    ELSE LET n == Len(sessions)
             map == project_totals(SubSeq(sessions, 1, n - 1))
             session == sessions[n]
         IN  IF counts_as_project(session)
             THEN entry_add(map, session.tags[1], session.duration)
             ELSE map

\* the loop of get_today_summary over the loaded sessions, first to last
RECURSIVE today_totals(_, _)
today_totals(sessions, today) ==
    IF sessions = <<>> THEN EmptyMap
    ELSE LET n == Len(sessions)
             map == today_totals(SubSeq(sessions, 1, n - 1), today)
             session == sessions[n]
         IN  IF counts_today(session, today)
             THEN entry_add(map, session.tags[1], session.duration)
             ELSE map

\* the entries of the map in descending order of name
RECURSIVE sort_by_name_reversed(_)
sort_by_name_reversed(map) ==
    IF DOMAIN map = {} THEN <<>>
    ELSE LET k == CHOOSE k \in DOMAIN map :
                     \A j \in DOMAIN map : ~name_lt(k, j)
             rest == [j \in (DOMAIN map) \ {k} |-> map[j]]
         IN  <<<<k, map[k]>>>> \o sort_by_name_reversed(rest)

\* project_totals.into_iter().collect() then sort_by(|a, b| a.0.cmp(&b.0)):
\* the entries of the map as (name, total) pairs in ascending order of name
RECURSIVE sort_by_name(_)
sort_by_name(map) ==
    IF DOMAIN map = {} THEN <<>>
    ELSE LET k == CHOOSE k \in DOMAIN map :
                     \A j \in DOMAIN map : ~name_lt(j, k)
             rest == [j \in (DOMAIN map) \ {k} |-> map[j]]
         IN  <<<<k, map[k]>>>> \o sort_by_name(rest)

\* the filter without the session_type test
is_project_session_any_type(s, project) ==
    /\ IsSome(s.end_time)
    /\ Len(s.tags) > 0
    /\ s.tags[1] = project

\* the filter of get_sessions_for_project and the negated retain condition
\* of delete_project_sessions
is_project_session(s, project) ==
    /\ s.session_type = "Stopwatch"
    /\ IsSome(s.end_time)
    /\ Len(s.tags) > 0
    /\ s.tags[1] = project

\* the sort with the comparison the other way round (oldest first)
RECURSIVE sort_by_end_time_asc(_)
sort_by_end_time_asc(sessions) ==
    IF sessions = <<>> THEN <<>>
    ELSE LET n == Len(sessions)
             sorted == sort_by_end_time_asc(SubSeq(sessions, 1, n - 1))
             x == sessions[n]
             before == Cardinality({i \in 1..Len(sorted) :
                          Unwrap(sorted[i].end_time) <= Unwrap(x.end_time)})
         IN  SubSeq(sorted, 1, before) \o <<x>>
                 \o SubSeq(sorted, before + 1, Len(sorted))

\* sort_by(|a, b| b.end_time.cmp(&a.end_time)) on sessions whose end_time is
\* set: a stable sort, newest first (each element goes behind the elements
\* that do not end before it)
RECURSIVE sort_by_end_time_desc(_)
sort_by_end_time_desc(sessions) ==
    IF sessions = <<>> THEN <<>>
    ELSE LET n == Len(sessions)
             sorted == sort_by_end_time_desc(SubSeq(sessions, 1, n - 1))
             x == sessions[n]
             before == Cardinality({i \in 1..Len(sorted) :
                          Unwrap(sorted[i].end_time) >= Unwrap(x.end_time)})
         IN  SubSeq(sorted, 1, before) \o <<x>>
                 \o SubSeq(sorted, before + 1, Len(sorted))

\* the retain that looks at the first tag alone
retain_other_tags(sessions, project) ==
    SelectSeq(sessions, LAMBDA s : ~(Len(s.tags) > 0 /\ s.tags[1] = project))

\* sessions.retain(|s| !(...)): the sessions kept, in their order
retain_others(sessions, project) ==
    SelectSeq(sessions, LAMBDA s : ~is_project_session(s, project))

\* the body of delete_project_sessions that writes unconditionally
delete_from_always_writing(file, project, write_ok) ==
    LET r == load_sessions(file)
    IN  IF ~r.ok THEN [res |-> r, file |-> file, wrote |-> FALSE]
        ELSE LET kept == retain_others(r.value, project)
                 deleted_count == Len(r.value) - Len(kept)
                 w == fs_write(file, kept, write_ok)
             IN  [res |-> IF w.res.ok THEN Ok(deleted_count) ELSE w.res,
                  file |-> w.file, wrote |-> w.wrote]

\* the body of NetupiCore::delete_project_sessions: [res, file, wrote]
delete_from(file, project, write_ok) ==
    LET r == load_sessions(file)
    IN  IF ~r.ok THEN [res |-> r, file |-> file, wrote |-> FALSE]
        ELSE LET kept == retain_others(r.value, project)
                 deleted_count == Len(r.value) - Len(kept)
             IN  IF deleted_count > 0
                 THEN LET w == fs_write(file, kept, write_ok)
                      IN  [res |-> IF w.res.ok THEN Ok(deleted_count) ELSE w.res,
                           file |-> w.file, wrote |-> w.wrote]
                 ELSE [res |-> Ok(deleted_count), file |-> file, wrote |-> FALSE]

\* the clock of the query specification
TickQuery ==
    /\ now < MaxClock
    /\ now' = now + 1
    /\ UNCHANGED <<sessions_file, config_file, engine, data, config,
                   current_session, event_sender, rx_alive, events, next_id,
                   discarded, last>>
    /\ UNCHANGED <<pc, locks, last_start, display>>

\* get_projects that rewrites the store with the sessions it counted
get_projects_compacting ==
    /\ engine = "ready"
    /\ LET r == load_sessions(sessions_file)
       IN  /\ last' = Call("get_projects", <<>>,
                           IF r.ok THEN Ok(sort_by_name(project_totals(r.value))) ELSE r,
                           r.ok)
           /\ sessions_file' =
                 IF r.ok THEN OkFile(SelectSeq(r.value, counts_as_project))
                 ELSE sessions_file
    /\ UNCHANGED <<now, config_file, engine, data, config,
                   current_session, event_sender, rx_alive, events, next_id, discarded>>
    /\ UNCHANGED <<pc, locks, last_start, display>>

\* NetupiCore::get_projects
get_projects ==
    /\ engine = "ready"
    /\ LET r == load_sessions(sessions_file)
       IN  last' = Call("get_projects", <<>>,
                        IF r.ok THEN Ok(sort_by_name(project_totals(r.value))) ELSE r,
                        FALSE)
    /\ UNCHANGED <<now, sessions_file, config_file, engine, data, config,
                   current_session, event_sender, rx_alive, events, next_id, discarded>>
    /\ UNCHANGED <<pc, locks, last_start, display>>

\* NetupiCore::get_today_summary; the argument recorded is its Utc::now()
get_today_summary ==
    /\ engine = "ready"
    /\ LET r == load_sessions(sessions_file)
       IN  last' = Call("get_today_summary", <<now>>,
                        IF r.ok THEN Ok(today_totals(r.value, date_naive(now))) ELSE r,
                        FALSE)
    /\ UNCHANGED <<now, sessions_file, config_file, engine, data, config,
                   current_session, event_sender, rx_alive, events, next_id, discarded>>
    /\ UNCHANGED <<pc, locks, last_start, display>>

\* NetupiCore::get_sessions_for_project
get_sessions_for_project(project) ==
    /\ engine = "ready"
    /\ LET r == load_sessions(sessions_file)
       IN  last' = Call("get_sessions_for_project", <<project>>,
                        IF r.ok
                        THEN Ok(sort_by_end_time_desc(
                                 SelectSeq(r.value,
                                     LAMBDA s : is_project_session(s, project))))
                        ELSE r,
                        FALSE)
    /\ UNCHANGED <<now, sessions_file, config_file, engine, data, config,
                   current_session, event_sender, rx_alive, events, next_id, discarded>>
    /\ UNCHANGED <<pc, locks, last_start, display>>

\* NetupiCore::delete_project_sessions
delete_project_sessions(project, write_ok) ==
    /\ engine = "ready"
    /\ LET d == delete_from(sessions_file, project, write_ok)
       IN  /\ sessions_file' = d.file
           /\ last' = Call("delete_project_sessions", <<project>>, d.res, d.wrote)
    /\ UNCHANGED <<now, config_file, engine, data, config, current_session,
                   event_sender, rx_alive, events, next_id, discarded>>
    /\ UNCHANGED <<pc, locks, last_start, display>>

\* a direct call of PersistenceManager::load_config
call_load_config(write_ok) ==
    /\ LET l == load_config(config_file, write_ok)
       IN  /\ config_file' = l.file
           /\ last' = Call("load_config", <<>>, l.res, l.wrote)
    /\ UNCHANGED <<now, sessions_file, engine, data, config, current_session,
                   event_sender, rx_alive, events, next_id, discarded>>
    /\ UNCHANGED <<pc, locks, last_start, display>>

\* a direct call of PersistenceManager::save_config
call_save_config(cfg, write_ok) ==
    /\ LET w == save_config(config_file, cfg, write_ok)
       IN  /\ config_file' = w.file
           /\ last' = Call("save_config", <<cfg>>, w.res, w.wrote)
    /\ UNCHANGED <<now, sessions_file, engine, data, config, current_session,
                   event_sender, rx_alive, events, next_id, discarded>>
    /\ UNCHANGED <<pc, locks, last_start, display>>

\* the WorkSession values callers store in the query specification: three
\* caller uuids, under each of them one of several payloads
QuerySessions ==
    { [id |-> -1, session_type |-> "Stopwatch", start_time |-> 0,
       end_time |-> Some(0), duration |-> 1, paused_duration |-> 0,
       description |-> None, tags |-> <<"A">>],
      [id |-> -1, session_type |-> "PomodoroWork", start_time |-> 0,
       end_time |-> Some(1), duration |-> 2, paused_duration |-> 0,
       description |-> None, tags |-> <<"A">>],
      [id |-> -2, session_type |-> "Stopwatch", start_time |-> 1,
       end_time |-> Some(2), duration |-> 2, paused_duration |-> 0,
       description |-> Some("d"), tags |-> <<"A">>],
      [id |-> -2, session_type |-> "Stopwatch", start_time |-> 0,
       end_time |-> Some(1), duration |-> 1, paused_duration |-> 0,
       description |-> None, tags |-> <<"B">>],
      [id |-> -2, session_type |-> "Stopwatch", start_time |-> 0,
       end_time |-> None, duration |-> 0, paused_duration |-> 0,
       description |-> None, tags |-> <<"A">>],
      [id |-> -3, session_type |-> "Stopwatch", start_time |-> 2,
       end_time |-> Some(3), duration |-> 3, paused_duration |-> 0,
       description |-> None, tags |-> <<"B">>],
      [id |-> -3, session_type |-> "Stopwatch", start_time |-> 0,
       end_time |-> Some(1), duration |-> 1, paused_duration |-> 0,
       description |-> None, tags |-> <<>>],
      [id |-> -3, session_type |-> "Stopwatch", start_time |-> 1,
       end_time |-> Some(2), duration |-> 1, paused_duration |-> 0,
       description |-> None, tags |-> <<"B", "A">>] }

\* ------------------------------------------- the engine under concurrency
\* The three operations step by step, one step per await point or assignment,
\* for callers that share the engine.  tokio's RwLock::write().await suspends
\* the caller until the lock is free; a guard is released when it is dropped.

\* a caller enters start_timer(timer_type) and asks for data; the uuid of its
\* session is drawn
start_call(c, timer_type) ==
    /\ engine = "ready"
    /\ pc[c].at = "idle"
    /\ next_id <= MaxIds
    /\ pc' = [pc EXCEPT ![c] = [NoCall EXCEPT !.at = "lock_data",
                                             !.op = "start_work_session",
                                             !.timer_type = timer_type,
                                             !.id = next_id]]
    /\ next_id' = next_id + 1
    /\ locks' = [locks EXCEPT !.waiting = Append(@, c)]
    /\ UNCHANGED <<now, sessions_file, config_file, engine, data, config,
                   current_session, event_sender, rx_alive, events, discarded,
                   last, last_start>>
    /\ UNCHANGED display

\* a caller enters stop_timer or get_current_state and asks for data
enter_call(c, op) ==
    /\ engine = "ready"
    /\ pc[c].at = "idle"
    /\ pc' = [pc EXCEPT ![c] = [NoCall EXCEPT !.at = "lock_data", !.op = op]]
    /\ locks' = [locks EXCEPT !.waiting = Append(@, c)]
    /\ UNCHANGED <<now, sessions_file, config_file, engine, data, config,
                   current_session, event_sender, rx_alive, events, next_id,
                   discarded, last, last_start>>
    /\ UNCHANGED display

\* let mut data = self.data.write().await, the first statement of all three
lock_data(c) ==
    /\ pc[c].at = "lock_data"
    /\ locks.data = 0
    /\ Head(locks.waiting) = c
    /\ locks' = [locks EXCEPT !.data = c, !.waiting = Tail(@)]
    /\ pc' = [pc EXCEPT ![c].at =
                 CASE pc[c].op = "start_work_session" -> "read_config"
                   [] pc[c].op = "stop_timer" -> "set_idle"
                   [] OTHER -> "read_state"]
    /\ UNCHANGED <<now, sessions_file, config_file, engine, data, config,
                   current_session, event_sender, rx_alive, events, next_id,
                   discarded, last, last_start>>
    /\ UNCHANGED display

\* start: let config = self.config.read().await (nobody writes config)
start_read_config(c) ==
    /\ pc[c].at = "read_config"
    /\ locks' = [locks EXCEPT !.config = @ \cup {c}]
    /\ pc' = [pc EXCEPT ![c].at = "write_data"]
    /\ UNCHANGED <<now, sessions_file, config_file, engine, data, config,
                   current_session, event_sender, rx_alive, events, next_id,
                   discarded, last, last_start>>
    /\ UNCHANGED display

\* start that drops the data guard as soon as it has written TimerData
start_write_data_unlocking(c) ==
    /\ pc[c].at = "write_data"
    /\ data' = started_data(pc[c].timer_type, config, now)
    /\ locks' = [locks EXCEPT !.data = 0]
    /\ pc' = [pc EXCEPT ![c].at = "lock_session"]
    /\ UNCHANGED <<now, sessions_file, config_file, engine, config,
                   current_session, event_sender, rx_alive, events, next_id,
                   discarded, last, last_start>>
    /\ UNCHANGED display

\* start: *data = TimerData { .. }
start_write_data(c) ==
    /\ pc[c].at = "write_data"
    /\ data' = started_data(pc[c].timer_type, config, now)
    /\ pc' = [pc EXCEPT ![c].at = "lock_session"]
    /\ UNCHANGED <<now, sessions_file, config_file, engine, config,
                   current_session, event_sender, rx_alive, events, next_id,
                   discarded, last, locks, last_start>>
    /\ UNCHANGED display

\* start: self.current_session.write().await
start_lock_session(c) ==
    /\ pc[c].at = "lock_session"
    /\ locks.session = 0
    /\ locks' = [locks EXCEPT !.session = c]
    /\ pc' = [pc EXCEPT ![c].at = "set_session"]
    /\ UNCHANGED <<now, sessions_file, config_file, engine, data, config,
                   current_session, event_sender, rx_alive, events, next_id,
                   discarded, last, last_start>>
    /\ UNCHANGED display

\* start: *guard = Some(session); the guard is dropped with the statement
start_set_session(c) ==
    /\ pc[c].at = "set_session"
    /\ current_session' =
          Some(new_session(pc[c].id, pc[c].timer_type, None, None, now))
    /\ discarded' = IF IsSome(current_session)
                    THEN discarded \cup {Unwrap(current_session).id}
                    ELSE discarded
    /\ locks' = [locks EXCEPT !.session = 0]
    /\ pc' = [pc EXCEPT ![c].at = "send_started"]
    /\ UNCHANGED <<now, sessions_file, config_file, engine, data, config,
                   event_sender, rx_alive, events, next_id, last, last_start>>
    /\ UNCHANGED display

\* start: the send, Ok(()), and the guards of data and config are dropped
start_return(c) ==
    /\ pc[c].at = "send_started"
    /\ events' = send("Started")
    /\ locks' = [locks EXCEPT !.data = 0, !.config = @ \ {c}]
    /\ last_start' = pc[c].id
    /\ pc' = [pc EXCEPT ![c] = NoCall]
    /\ UNCHANGED <<now, sessions_file, config_file, engine, data, config,
                   current_session, event_sender, rx_alive, next_id, discarded, last>>
    /\ UNCHANGED display

\* stop: data.state = TimerState::Idle
stop_set_idle(c) ==
    /\ pc[c].at = "set_idle"
    /\ data' = [data EXCEPT !.state = "Idle"]
    /\ pc' = [pc EXCEPT ![c].at = "take_session"]
    /\ UNCHANGED <<now, sessions_file, config_file, engine, config,
                   current_session, event_sender, rx_alive, events, next_id,
                   discarded, last, locks, last_start>>
    /\ UNCHANGED display

\* stop: if let Some(session) = self.current_session.write().await.take();
\* the guard lives as long as the if let
stop_take_session(c) ==
    /\ pc[c].at = "take_session"
    /\ locks.session = 0
    /\ current_session' = None
    /\ IF IsSome(current_session)
       THEN /\ locks' = [locks EXCEPT !.session = c]
            /\ pc' = [pc EXCEPT ![c].at = "save_session",
                                ![c].session = current_session]
       ELSE /\ locks' = locks
            /\ pc' = [pc EXCEPT ![c].at = "reset"]
    /\ UNCHANGED <<now, sessions_file, config_file, engine, data, config,
                   event_sender, rx_alive, events, next_id, discarded, last,
                   last_start>>
    /\ UNCHANGED display

\* stop whose error return keeps the guards
stop_save_session_holding(c, write_ok) ==
    /\ pc[c].at = "save_session"
    /\ LET w == save_session(sessions_file,
                    final_session(Unwrap(pc[c].session), data, now), write_ok)
       IN  /\ sessions_file' = w.file
           /\ IF w.res.ok
              THEN /\ locks' = [locks EXCEPT !.session = 0]
                   /\ pc' = [pc EXCEPT ![c].at = "reset"]
              ELSE /\ locks' = locks
                   /\ pc' = [pc EXCEPT ![c].at = "failed"]
    /\ UNCHANGED <<now, config_file, engine, data, config, current_session,
                   event_sender, rx_alive, events, next_id, discarded, last, last_start>>
    /\ UNCHANGED display

\* stop: the session is finalized and saved; on an error `?` returns it and
\* every guard is dropped
stop_save_session(c, write_ok) ==
    /\ pc[c].at = "save_session"
    /\ LET w == save_session(sessions_file,
                    final_session(Unwrap(pc[c].session), data, now), write_ok)
       IN  /\ sessions_file' = w.file
           /\ IF w.res.ok
              THEN /\ locks' = [locks EXCEPT !.session = 0]
                   /\ pc' = [pc EXCEPT ![c].at = "reset"]
              ELSE /\ locks' = [locks EXCEPT !.session = 0, !.data = 0]
                   /\ pc' = [pc EXCEPT ![c] = NoCall]
    /\ UNCHANGED <<now, config_file, engine, data, config, current_session,
                   event_sender, rx_alive, events, next_id, discarded, last, last_start>>
    /\ UNCHANGED display

\* stop: *data = TimerData::default(), the send, Ok(()), the guard is dropped
stop_return(c) ==
    /\ pc[c].at = "reset"
    /\ data' = TimerDataDefault
    /\ events' = send("Stopped")
    /\ locks' = [locks EXCEPT !.data = 0]
    /\ pc' = [pc EXCEPT ![c] = NoCall]
    /\ UNCHANGED <<now, sessions_file, config_file, engine, config,
                   current_session, event_sender, rx_alive, next_id, discarded,
                   last, last_start>>
    /\ UNCHANGED display

\* get_current_state: the refresh, data.clone(), the guard is dropped
get_read_state(c) ==
    /\ pc[c].at = "read_state"
    /\ data' = refreshed(data, now)
    /\ locks' = [locks EXCEPT !.data = 0]
    /\ pc' = [pc EXCEPT ![c] = NoCall]
    /\ UNCHANGED <<now, sessions_file, config_file, engine, config,
                   current_session, event_sender, rx_alive, events, next_id,
                   discarded, last, last_start>>
    /\ UNCHANGED display

\* ------------------------------------------ the store under concurrency
\* NetupiCore is Clone around an Arc<TimerEngine>, so a task may run
\* delete_project_sessions while another runs stop_timer.  Both read the
\* whole sessions file and later write the whole file; the store has no lock
\* of its own and delete_project_sessions takes none of the engine's.  One
\* step per file operation; a stop holds data.write() from its entry to its
\* return, so no start and no other stop runs during it.

\* stop_timer up to the load_sessions() inside save_session: the state is set
\* to Idle, the session is taken and finalized, the file is read and the
\* local vector is updated; without a session stop_timer returns at once
stop_load_sessions(c) ==
    /\ engine = "ready"
    /\ pc[c].at = "idle"
    /\ CanSend
    /\ \A o \in Callers : pc[o].at # "write_sessions"
    /\ current_session' = None
    /\ IF IsSome(current_session)
       THEN LET fin == final_session(Unwrap(current_session),
                                     [data EXCEPT !.state = "Idle"], now)
                sessions == unwrap_or_default(load_sessions(sessions_file))
            IN  /\ data' = [data EXCEPT !.state = "Idle"]
                /\ events' = events
                /\ pc' = [o \in Callers |->
                            IF o = c
                            THEN [NoCall EXCEPT !.at = "write_sessions",
                                                !.op = "stop_timer",
                                                !.session = Some(fin),
                                                !.sessions = upsert(sessions, fin)]
                            ELSE IF pc[o].at = "delete_write"
                            THEN [pc[o] EXCEPT !.met = @ \cup {fin.id}]
                            ELSE pc[o]]
       ELSE /\ data' = TimerDataDefault
            /\ events' = send("Stopped")
            /\ pc' = [pc EXCEPT ![c] =
                        [NoCall EXCEPT !.at = "returned", !.op = "stop_timer"]]
    /\ UNCHANGED <<now, sessions_file, config_file, engine, config, event_sender,
                   rx_alive, next_id, discarded, last, locks, last_start>>
    /\ UNCHANGED display

\* stop_timer from tokio::fs::write inside save_session to its return
stop_write_sessions(c, write_ok) ==
    /\ pc[c].at = "write_sessions"
    /\ CanSend
    /\ LET w == fs_write(sessions_file, pc[c].sessions, write_ok)
       IN  /\ sessions_file' = w.file
           /\ data' = IF w.res.ok THEN TimerDataDefault ELSE data
           /\ events' = IF w.res.ok THEN send("Stopped") ELSE events
           /\ pc' = [pc EXCEPT ![c].at = "returned", ![c].ok = w.res.ok]
    /\ UNCHANGED <<now, config_file, engine, config, current_session, event_sender,
                   rx_alive, next_id, discarded, last, locks, last_start>>
    /\ UNCHANGED display

\* delete_project_sessions up to the test of deleted_count: load_sessions()?,
\* retain, and the return of Ok(0) when nothing was removed
delete_load_sessions(c, project) ==
    /\ engine = "ready"
    /\ pc[c].at = "idle"
    /\ LET r == load_sessions(sessions_file)
           kept == retain_others(unwrap_or_default(r), project)
           deleted_count == Len(unwrap_or_default(r)) - Len(kept)
           call == [NoCall EXCEPT !.op = "delete_project_sessions",
                                  !.project = project,
                                  !.met = {Unwrap(pc[o].session).id :
                                             o \in {x \in Callers :
                                                pc[x].at = "write_sessions"}}]
       IN  pc' = [pc EXCEPT ![c] =
                    IF ~r.ok THEN [call EXCEPT !.at = "returned", !.ok = FALSE]
                    ELSE IF deleted_count > 0
                    THEN [call EXCEPT !.at = "delete_write", !.sessions = kept,
                                      !.count = deleted_count]
                    ELSE [call EXCEPT !.at = "returned"]]
    /\ UNCHANGED <<now, sessions_file, config_file, engine, data, config,
                   current_session, event_sender, rx_alive, events, next_id,
                   discarded, last, locks, last_start>>
    /\ UNCHANGED display

\* delete_project_sessions from its tokio::fs::write to its return
delete_write_sessions(c, write_ok) ==
    /\ pc[c].at = "delete_write"
    /\ LET w == fs_write(sessions_file, pc[c].sessions, write_ok)
       IN  /\ sessions_file' = w.file
           /\ pc' = [pc EXCEPT ![c].at = "returned", ![c].ok = w.res.ok]
    /\ UNCHANGED <<now, config_file, engine, data, config, current_session,
                   event_sender, rx_alive, events, next_id, discarded, last,
                   locks, last_start>>
    /\ UNCHANGED display

\* the caller has looked at what its call returned and is free for the next
task_done(c) ==
    /\ pc[c].at = "returned"
    /\ pc' = [pc EXCEPT ![c] = NoCall]
    /\ UNCHANGED <<now, sessions_file, config_file, engine, data, config,
                   current_session, event_sender, rx_alive, events, next_id,
                   discarded, last, locks, last_start>>
    /\ UNCHANGED display

\* ------------------------------------------------------ interactive shell
\* a start command that does not stop the current timer first
shell_start_without_stop(op, timer_type, project_name, description, dt, write_ok) ==
    /\ write_ok
    /\ start_work_session(timer_type, project_name, description, dt)

\* cmd_work, cmd_pomodoro and cmd_break: stop_current_timer_if_running()?,
\* then the start; a failing stop ends the command before the start
shell_start(op, timer_type, project_name, description, dt, write_ok) ==
    /\ engine = "ready"
    /\ next_id <= MaxIds
    /\ now + dt <= MaxTime
    /\ CanSend
    /\ LET state == refreshed(data, now)
           stops == state.state # "Idle"
           had == stops /\ IsSome(current_session)
           w == IF had
                THEN save_session(sessions_file,
                         final_session(Unwrap(current_session), state, now),
                         write_ok)
                ELSE [res |-> Ok(<<>>), file |-> sessions_file, wrote |-> FALSE]
           session == IF stops THEN None ELSE current_session
       IN  /\ had \/ write_ok
           /\ sessions_file' = w.file
           /\ IF w.res.ok
              THEN /\ data' = started_data(timer_type, config, now)
                   /\ current_session' =
                         Some(new_session(next_id, timer_type, project_name,
                                          description, now + dt))
                   /\ now' = now + dt
                   /\ next_id' = next_id + 1
                   /\ events' = send("Started")
                   /\ discarded' = IF IsSome(session)
                                   THEN discarded \cup {Unwrap(session).id}
                                   ELSE discarded
              ELSE /\ data' = [state EXCEPT !.state = "Idle"]
                   /\ current_session' = None
                   /\ UNCHANGED <<now, next_id, events, discarded>>
           /\ last' = Call(op, <<timer_type, project_name, description>>,
                           w.res, w.wrote)
    /\ UNCHANGED <<config_file, engine, config, event_sender, rx_alive>>
    /\ UNCHANGED <<pc, locks, last_start, display>>

\* InteractiveMode::cmd_work
cmd_work(project_name, description, dt, write_ok) ==
    shell_start("cmd_work", "Stopwatch", Some(project_name), description, dt, write_ok)

\* InteractiveMode::cmd_pomodoro
cmd_pomodoro(dt, write_ok) ==
    shell_start("cmd_pomodoro", "PomodoroWork", None, None, dt, write_ok)

\* InteractiveMode::cmd_break
cmd_break(dt, write_ok) ==
    shell_start("cmd_break", "PomodoroShortBreak", None, None, dt, write_ok)

\* InteractiveMode::cmd_stop: nothing happens on an Idle engine
cmd_stop(write_ok) ==
    /\ engine = "ready"
    /\ LET state == refreshed(data, now)
       IN  IF state.state = "Idle"
           THEN /\ write_ok
                /\ data' = state
                /\ last' = Call("cmd_stop", <<>>, Ok(<<>>), FALSE)
                /\ UNCHANGED <<sessions_file, current_session, events>>
           ELSE LET w == IF IsSome(current_session)
                         THEN save_session(sessions_file,
                                  final_session(Unwrap(current_session), state, now),
                                  write_ok)
                         ELSE [res |-> Ok(<<>>), file |-> sessions_file,
                               wrote |-> FALSE]
                IN  /\ IsSome(current_session) \/ write_ok
                    /\ sessions_file' = w.file
                    /\ current_session' = None
                    /\ data' = IF w.res.ok THEN TimerDataDefault
                               ELSE [state EXCEPT !.state = "Idle"]
                    /\ events' = IF w.res.ok THEN send("Stopped") ELSE events
                    /\ last' = Call("cmd_stop", <<>>, w.res, w.wrote)
    /\ UNCHANGED <<now, config_file, engine, config, event_sender, rx_alive,
                   next_id, discarded>>
    /\ UNCHANGED <<pc, locks, last_start, display>>

\* ---------------------------------------------------- the timer display
\* start_timer_display and stop_timer_display of the shell, one step per
\* await of the main task, and the task start_timer_display spawns, one step
\* per turn of its select! loop.  A task is named by the number of its spawn;
\* its JoinHandle and the sender of its stop channel carry that number.

\* start_timer_display that spawns without stopping the previous display
start_timer_display_not_stopping ==
    /\ display.at = "idle"
    /\ engine = "ready"
    /\ display.spawned < MaxTasks
    /\ display' = [display EXCEPT !.at = "spawn", !.op = "start_timer_display"]
    /\ UNCHANGED <<now, sessions_file, config_file, engine, data, config,
                   current_session, event_sender, rx_alive, events, next_id,
                   discarded, last, pc, locks, last_start>>

\* the main task enters start_timer_display, which begins with
\* self.stop_timer_display().await
start_timer_display ==
    /\ display.at = "idle"
    /\ engine = "ready"
    /\ display.spawned < MaxTasks
    /\ display' = [display EXCEPT !.at = "stop_send", !.op = "start_timer_display"]
    /\ UNCHANGED <<now, sessions_file, config_file, engine, data, config,
                   current_session, event_sender, rx_alive, events, next_id,
                   discarded, last, pc, locks, last_start>>

\* the main task enters stop_timer_display
stop_timer_display ==
    /\ display.at = "idle"
    /\ display' = [display EXCEPT !.at = "stop_send", !.op = "stop_timer_display"]
    /\ UNCHANGED <<now, sessions_file, config_file, engine, data, config,
                   current_session, event_sender, rx_alive, events, next_id,
                   discarded, last, pc, locks, last_start>>

\* stop_timer_display: if let Some(sender) = ..take() { let _ = sender.send(()) };
\* the message reaches the channel only while the task, which owns the
\* receiver, is alive
display_stop_send ==
    /\ display.at = "stop_send"
    /\ display' = [display EXCEPT
          !.sender = None,
          !.signal = IF IsSome(display.sender) /\ Unwrap(display.sender) \in display.alive
                     THEN @ \cup {Unwrap(display.sender)}
                     ELSE @,
          !.at = "stop_take"]
    /\ UNCHANGED <<now, sessions_file, config_file, engine, data, config,
                   current_session, event_sender, rx_alive, events, next_id,
                   discarded, last, pc, locks, last_start>>

\* stop_timer_display: if let Some(handle) = ..take()
display_stop_take ==
    /\ display.at = "stop_take"
    /\ display' = [display EXCEPT
          !.handle = None,
          !.joining = IF IsSome(display.handle) THEN Unwrap(display.handle) ELSE 0,
          !.at = IF IsSome(display.handle) THEN "stop_join" ELSE "stop_reset"]
    /\ UNCHANGED <<now, sessions_file, config_file, engine, data, config,
                   current_session, event_sender, rx_alive, events, next_id,
                   discarded, last, pc, locks, last_start>>

\* stop_timer_display: let _ = handle.await, ready once the task has ended
display_stop_join ==
    /\ display.at = "stop_join"
    /\ display.joining \notin display.alive
    /\ display' = [display EXCEPT !.joining = 0, !.at = "stop_reset"]
    /\ UNCHANGED <<now, sessions_file, config_file, engine, data, config,
                   current_session, event_sender, rx_alive, events, next_id,
                   discarded, last, pc, locks, last_start>>

\* stop_timer_display: *self.timer_display_line.write().await = 0 and the
\* return, to the caller or into the rest of start_timer_display
display_stop_reset ==
    /\ display.at = "stop_reset"
    /\ display' = [display EXCEPT
          !.line = 0,
          !.at = IF display.op = "start_timer_display" THEN "spawn" ELSE "idle",
          !.op = IF display.op = "start_timer_display" THEN @ ELSE ""]
    /\ UNCHANGED <<now, sessions_file, config_file, engine, data, config,
                   current_session, event_sender, rx_alive, events, next_id,
                   discarded, last, pc, locks, last_start>>

\* start_timer_display: the channel, *timer_line.write().await = 1 and
\* tokio::spawn
display_spawn ==
    /\ display.at = "spawn"
    /\ display' = [display EXCEPT
          !.line = 1,
          !.spawned = @ + 1,
          !.alive = @ \cup {display.spawned + 1},
          !.at = "store"]
    /\ UNCHANGED <<now, sessions_file, config_file, engine, data, config,
                   current_session, event_sender, rx_alive, events, next_id,
                   discarded, last, pc, locks, last_start>>

\* start_timer_display: the handle and the sender are stored, and the return
display_store ==
    /\ display.at = "store"
    /\ display' = [display EXCEPT
          !.handle = Some(display.spawned),
          !.sender = Some(display.spawned),
          !.at = "idle",
          !.op = ""]
    /\ UNCHANGED <<now, sessions_file, config_file, engine, data, config,
                   current_session, event_sender, rx_alive, events, next_id,
                   discarded, last, pc, locks, last_start>>

\* the display task, select! branch interval.tick(): get_current_state(),
\* and the break when the state is Idle
display_tick(t) ==
    /\ t \in display.alive
    /\ data' = refreshed(data, now)
    /\ display' = IF data.state = "Idle"
                  THEN [display EXCEPT !.alive = @ \ {t},
                                       !.signal = @ \ {t},
                                       !.exited = @ \cup {t}]
                  ELSE display
    /\ UNCHANGED <<now, sessions_file, config_file, engine, config,
                   current_session, event_sender, rx_alive, events, next_id,
                   discarded, last, pc, locks, last_start>>

\* the display task, select! branch stop_receiver.recv(): the break
display_recv(t) ==
    /\ t \in display.alive
    /\ t \in display.signal
    /\ display' = [display EXCEPT !.alive = @ \ {t}, !.signal = @ \ {t}]
    /\ UNCHANGED <<now, sessions_file, config_file, engine, data, config,
                   current_session, event_sender, rx_alive, events, next_id,
                   discarded, last, pc, locks, last_start>>

\* the arguments callers pass to TimerEngine::start_work_session: those of
\* start_timer(t) for every type, those of NetupiCore::start_work_session, and
\* a pomodoro with a project
StartArgs ==
    {<<t, None, None>> : t \in TimerType}
    \cup {<<"Stopwatch", Some("A"), Some("d")>>, <<"Stopwatch", Some("B"), None>>,
          <<"PomodoroWork", Some("B"), None>>}

\* the timer engine driven through its own API
Next ==
    \/ Tick
    \/ \E w \in BOOLEAN : new(w)
    \/ \E a \in StartArgs, dt \in 0..1 : start_work_session(a[1], a[2], a[3], dt)
    \/ get_current_state
    \/ \E w \in BOOLEAN : stop_timer(w)

Spec == Init /\ [][Next]_vars

\* the record store driven by NetupiCore and by direct PersistenceManager calls
NextStore ==
    \/ Tick
    \/ \E w \in BOOLEAN : new(w)
    \/ \E p \in Projects, dt \in 0..1 : core_start_work_session(p, None, dt)
    \/ get_current_state
    \/ \E w \in BOOLEAN : stop_timer(w)
    \/ \E s \in CallerSessions, w \in BOOLEAN : call_save_session(s, w)
    \/ get_sessions

SpecStore == Init /\ [][NextStore]_vars

\* the record store filled by callers and read through the project queries
NextQuery ==
    \/ TickQuery
    \/ \E w \in BOOLEAN : new(w)
    \/ \E s \in QuerySessions, w \in BOOLEAN : call_save_session(s, w)
    \/ get_projects
    \/ get_today_summary
    \/ \E p \in Projects : get_sessions_for_project(p)
    \/ \E p \in Projects, w \in BOOLEAN : delete_project_sessions(p, w)
    \/ \E w \in BOOLEAN : call_load_config(w)
    \/ \E c \in Configs, w \in BOOLEAN : call_save_config(c, w)
    \/ get_sessions

SpecQuery == Init /\ [][NextQuery]_vars

\* the timer engine with a subscriber that comes, listens and goes
NextEvents ==
    \/ Tick
    \/ \E w \in BOOLEAN : new(w)
    \/ subscribe_events
    \/ drop_receiver
    \/ \E t \in {"Stopwatch", "PomodoroWork"}, dt \in 0..1 : start_timer(t, dt)
    \/ get_current_state
    \/ \E w \in BOOLEAN : stop_timer(w)

SpecEvents == Init /\ [][NextEvents]_vars

\* the interactive shell: its timer commands and the timer display's reads
NextShell ==
    \/ Tick
    \/ \E w \in BOOLEAN : new(w)
    \/ \E p \in Projects, d \in {None, Some("d")}, dt \in 0..1, w \in BOOLEAN :
          cmd_work(p, d, dt, w)
    \/ \E dt \in 0..1, w \in BOOLEAN : cmd_pomodoro(dt, w)
    \/ \E dt \in 0..1, w \in BOOLEAN : cmd_break(dt, w)
    \/ \E w \in BOOLEAN : cmd_stop(w)
    \/ get_current_state

SpecShell == Init /\ [][NextShell]_vars

\* the timer each caller starts: the first a stopwatch, the others pomodoros
CallerType(c) == IF c = 1 THEN "Stopwatch" ELSE "PomodoroWork"

\* callers that share one engine, interleaved at every await
NextConc ==
    \/ \E w \in BOOLEAN : new(w)
    \/ \E c \in Callers : start_call(c, CallerType(c))
    \/ \E c \in Callers, op \in {"stop_timer", "get_current_state"} : enter_call(c, op)
    \/ \E c \in Callers : lock_data(c)
    \/ \E c \in Callers : start_read_config(c)
    \/ \E c \in Callers : start_write_data(c)
    \/ \E c \in Callers : start_lock_session(c)
    \/ \E c \in Callers : start_set_session(c)
    \/ \E c \in Callers : start_return(c)
    \/ \E c \in Callers : stop_set_idle(c)
    \/ \E c \in Callers : stop_take_session(c)
    \/ \E c \in Callers, w \in BOOLEAN : stop_save_session(c, w)
    \/ \E c \in Callers : stop_return(c)
    \/ \E c \in Callers : get_read_state(c)

SpecConc == Init /\ [][NextConc]_vars

\* the steps a caller takes inside a call other than waiting for data
InCall(c) ==
    \/ start_read_config(c)
    \/ start_write_data(c)
    \/ start_lock_session(c)
    \/ start_set_session(c)
    \/ start_return(c)
    \/ stop_set_idle(c)
    \/ stop_take_session(c)
    \/ \E w \in BOOLEAN : stop_save_session(c, w)
    \/ stop_return(c)
    \/ get_read_state(c)

\* fair scheduling: the runtime keeps running a task that can run
SpecConcFair ==
    /\ SpecConc
    /\ WF_vars(\E c \in Callers : lock_data(c) \/ InCall(c))

\* NetupiCore shared by tasks: starts between the calls on the store, stops
\* and deletes step by step
NextStoreRace ==
    \/ \E w \in BOOLEAN : new(w)
    \/ /\ \A c \in Callers : pc[c].at # "write_sessions"
       /\ \E p \in Projects : core_start_work_session(p, None, 0)
    \/ \E c \in Callers : stop_load_sessions(c)
    \/ \E c \in Callers, w \in BOOLEAN : stop_write_sessions(c, w)
    \/ \E c \in Callers, p \in Projects : delete_load_sessions(c, p)
    \/ \E c \in Callers, w \in BOOLEAN : delete_write_sessions(c, w)
    \/ \E c \in Callers : task_done(c)

SpecStoreRace == Init /\ [][NextStoreRace]_vars

\* the shell's display over the engine: the main task starts and stops the
\* timer between its calls of the two display functions; the clock stands
\* still, the display's control flow reads only TimerData.state
NextDisplay ==
    \/ \E w \in BOOLEAN : new(w)
    \/ display.at = "idle" /\ start_timer("Stopwatch", 0)
    \/ display.at = "idle" /\ \E w \in BOOLEAN : stop_timer(w)
    \/ start_timer_display
    \/ stop_timer_display
    \/ display_stop_send
    \/ display_stop_take
    \/ display_stop_join
    \/ display_stop_reset
    \/ display_spawn
    \/ display_store
    \/ \E t \in Tasks : display_tick(t)
    \/ \E t \in Tasks : display_recv(t)

SpecDisplay == Init /\ [][NextDisplay]_vars

\* the runtime keeps running the main task, and a select! whose recv()
\* branch is ready takes it in the end
SpecDisplayFair ==
    /\ SpecDisplay
    /\ WF_vars(display_stop_send \/ display_stop_take \/ display_stop_join
                  \/ display_stop_reset)
    /\ \A t \in Tasks : WF_vars(display_recv(t))

\* ------------------------------------------------------------- properties
\* the steps of one operation, whatever its inputs (each begins with a test
\* that only steps of the operation pass)
StartStep ==
    /\ next_id' # next_id
    /\ \E t \in TimerType, p \in {None} \cup {Some(x) : x \in Projects},
          d \in {None} \cup {Some(x) : x \in Descriptions}, dt \in 0..1 :
          /\ last'.args = <<t, p, d>> /\ now' = now + dt
          /\ start_work_session(t, p, d, dt)
StopStep ==
    /\ now' = now /\ last'.op = "stop_timer"
    /\ \E w \in BOOLEAN : stop_timer(w)
SaveStep ==
    /\ now' = now /\ last'.op = "save_session"
    /\ \E s \in CallerSessions, w \in BOOLEAN : call_save_session(s, w)
GetStep ==
    /\ now' = now /\ last'.op = "get_current_state"
    /\ get_current_state

\* the records a sessions file holds, and those of them with a given id
Stored(file) == IF file.kind = "ok" THEN file.content ELSE <<>>
StoredWithId(file, id) ==
    {i \in 1..Len(Stored(file)) : Stored(file)[i].id = id}
StoredIds(file) == {Stored(file)[i].id : i \in 1..Len(Stored(file))}
DistinctIds(file) ==
    \A i, j \in 1..Len(Stored(file)) :
        Stored(file)[i].id = Stored(file)[j].id => i = j

\* C1: a successful stop of an in-flight session persists a record with
\* duration = end_time - start_time - paused_duration and with paused_duration
\* equal to the engine's paused_time at the stop, whatever the clock did and
\* however many get_current_state reads came between the start and the stop.
C1_PersistedDurationIsWallClock ==
    [][(StopStep /\ IsSome(current_session) /\ last'.res.ok) =>
         \A i \in StoredWithId(sessions_file', Unwrap(current_session).id) :
            LET s == Stored(sessions_file')[i]
            IN  /\ IsSome(s.end_time)
                /\ s.duration = (Unwrap(s.end_time) - s.start_time) - s.paused_duration
                /\ s.paused_duration = data.paused_time]_vars

\* C2: a start while the engine is Running does not write the sessions file,
\* and the id of the in-flight session it replaces is never stored afterwards.
C2_RestartDiscardsSession ==
    /\ [][(data.state = "Running" /\ StartStep) =>
            /\ sessions_file' = sessions_file
            /\ ~last'.wrote
            /\ IsSome(current_session)
            /\ Unwrap(current_session).id \notin StoredIds(sessions_file')
            /\ Unwrap(current_session').id # Unwrap(current_session).id]_vars
    /\ [](discarded \cap StoredIds(sessions_file) = {})

C2_Witness ==
    /\ discarded # {}
    /\ last.op = "stop_timer" /\ last.res.ok /\ last.wrote
    /\ Len(Stored(sessions_file)) = 1

\* C3: a save_session (a direct call, or the one stop_timer makes) that meets a
\* storage failure, a sessions file it cannot parse or a write that fails,
\* returns a typed error and leaves the file as it was.
C3_SaveFailureIsReturned ==
    [][\A w \in BOOLEAN :
         ( /\ now' = now /\ last'.op \in {"save_session", "stop_timer"}
           /\ \/ \E s \in CallerSessions : call_save_session(s, w)
              \/ stop_timer(w) /\ IsSome(current_session)
           /\ (sessions_file.kind = "malformed" \/ ~w) ) =>
         /\ ~last'.res.ok
         /\ last'.res.err \in {"Io", "Serialization", "Config"}
         /\ sessions_file' = sessions_file]_vars

\* C4: save_session is an upsert. Every successful save_session on a store
\* with pairwise distinct ids leaves the ids pairwise distinct, exactly one
\* record with the saved id, equal to the saved payload, and every record with
\* another id as it was; so the record of an id is the payload last saved.
C4_SaveSessionIsUpsert ==
    /\ [](DistinctIds(sessions_file))
    /\ [][\A s \in CallerSessions :
            (last'.op = "save_session" /\ call_save_session(s, TRUE)
             /\ DistinctIds(sessions_file)) =>
            /\ last'.res.ok
            /\ DistinctIds(sessions_file')
            /\ Cardinality(StoredWithId(sessions_file', s.id)) = 1
            /\ \A i \in StoredWithId(sessions_file', s.id) :
                  Stored(sessions_file')[i] = s
            /\ StoredIds(sessions_file') = StoredIds(sessions_file) \cup {s.id}
            /\ \A i \in 1..Len(Stored(sessions_file)) :
                  Stored(sessions_file)[i].id # s.id =>
                  \E j \in 1..Len(Stored(sessions_file')) :
                     Stored(sessions_file')[j] = Stored(sessions_file)[i]]_vars

\* a save that replaced: the saved record is stored ahead of another record
C4_Witness ==
    /\ last.op = "save_session" /\ last.res.ok
    /\ Len(Stored(sessions_file)) >= 2
    /\ Stored(sessions_file)[1] = last.args[1]

\* C5: a successful stop of an in-flight session leaves the engine Idle with the
\* default TimerData and no in-flight session, and the store holds exactly one
\* record with the session's id: the session with end_time set, duration the
\* elapsed and paused_duration the paused_time the engine had before the stop.
C5_StopFinalizesAndResets ==
    [][(StopStep /\ IsSome(current_session) /\ last'.res.ok) =>
         LET s == Unwrap(current_session)
         IN  /\ data' = [timer_type |-> "Stopwatch", state |-> "Idle",
                         target_duration |-> <<>>, elapsed |-> 0, paused_time |-> 0,
                         start_time |-> <<>>, pause_start |-> <<>>]
             /\ current_session' = <<>>
             /\ Cardinality(StoredWithId(sessions_file', s.id)) = 1
             /\ \A i \in StoredWithId(sessions_file', s.id) :
                   Stored(sessions_file')[i] =
                      [s EXCEPT !.end_time = <<now>>, !.duration = data.elapsed,
                                !.paused_duration = data.paused_time]]_vars

C5_Witness ==
    /\ last.op = "stop_timer" /\ last.res.ok /\ last.wrote
    /\ data.state = "Idle" /\ current_session = <<>>
    /\ \E i \in 1..Len(Stored(sessions_file)) :
          /\ Stored(sessions_file)[i].duration > 0
          /\ IsSome(Stored(sessions_file)[i].end_time)

\* C6: a stop issued while the engine is Idle returns success, writes nothing
\* to the sessions file and leaves TimerData as it was.
C6_IdleStopIsNoOp ==
    [][(StopStep /\ data.state = "Idle") =>
         /\ last'.res.ok
         /\ ~last'.wrote
         /\ sessions_file' = sessions_file
         /\ data' = data]_vars

\* C7: between operations there is at most one in-flight session, and there is
\* one exactly when TimerData.state is not Idle.
C7_SingleTimer ==
    /\ Len(current_session) <= 1
    /\ IsSome(current_session) <=> data.state # "Idle"

C7_Witness ==
    /\ data.state = "Running" /\ IsSome(current_session)
    /\ last.op = "start_work_session"
    /\ Len(Stored(sessions_file)) = 1

\* C8: start succeeds from Idle and from Running alike and leaves the state
\* Running with the timer_type passed (while start is the last call, only the
\* clock has moved since); a get_current_state issued while that timer is in
\* flight reports state Running and the type passed to the start.
C8_StartAlwaysSucceeds ==
    /\ last.op = "start_work_session" =>
          /\ last.res.ok
          /\ data.state = "Running"
          /\ data.timer_type = last.args[1]
          /\ Len(current_session) = 1
          /\ current_session[1].session_type = last.args[1]
    /\ (last.op = "get_current_state" /\ IsSome(current_session)) =>
          /\ last.res.value.state = "Running"
          /\ last.res.value.timer_type = current_session[1].session_type

C8_Witness ==
    /\ last.op = "get_current_state"
    /\ last.res.value.state = "Running"
    /\ last.res.value.timer_type = "PomodoroWork"
    /\ discarded # {}

\* C9: start(T, project, description) leaves elapsed = 0, paused_time = 0,
\* start_time set, target_duration the configured work, short-break or
\* long-break duration for the three pomodoro types (25 minutes for
\* PomodoroWork under the default config) and None for Stopwatch and
\* CustomTimer; the in-flight session has session_type T and tags [project],
\* or no tags when no project was given. (While start is the last call, only
\* the clock has moved since it returned.)
C9_StartInstallsTimer ==
    last.op = "start_work_session" =>
       LET t == last.args[1]
           p == last.args[2]
           d == last.args[3]
       IN  /\ data.elapsed = 0
           /\ data.paused_time = 0
           /\ Len(data.start_time) = 1 /\ data.start_time[1] <= now
           /\ t = "PomodoroWork" =>
                 data.target_duration = <<config.pomodoro_work_duration>>
           /\ t = "PomodoroShortBreak" =>
                 data.target_duration = <<config.pomodoro_short_break_duration>>
           /\ t = "PomodoroLongBreak" =>
                 data.target_duration = <<config.pomodoro_long_break_duration>>
           /\ t \in {"Stopwatch", "CustomTimer"} => data.target_duration = <<>>
           /\ (t = "PomodoroWork" /\ config =
                  [pomodoro_work_duration |-> 25, pomodoro_short_break_duration |-> 5,
                   pomodoro_long_break_duration |-> 15, long_break_interval |-> 4,
                   auto_start_breaks |-> FALSE, auto_start_work |-> FALSE]) =>
                 data.target_duration = <<25>>
           /\ Len(current_session) = 1
           /\ current_session[1].session_type = t
           /\ current_session[1].description = d
           /\ current_session[1].tags = (IF p = <<>> THEN <<>> ELSE <<p[1]>>)

C9_Witness ==
    /\ last.op = "start_work_session"
    /\ data.timer_type = "PomodoroLongBreak"
    /\ data.target_duration = <<15>>
    /\ current_session[1].tags = <<>>

C11_StopwatchSessionRecorded ==
    [][(/\ IsSome(current_session)
        /\ current_session[1].session_type = "Stopwatch"
        /\ Len(current_session[1].tags) = 1
        /\ now > current_session[1].start_time
        /\ StopStep /\ last'.res.ok) =>
         LET s == current_session[1]
             old == Stored(sessions_file)
             new_ == Stored(sessions_file')
         IN  /\ s.id \notin StoredIds(sessions_file)
             /\ Len(new_) = Len(old) + 1
             /\ \A i \in 1..Len(old) : new_[i] = old[i]
             /\ new_[Len(new_)].id = s.id
             /\ new_[Len(new_)].session_type = "Stopwatch"
             /\ new_[Len(new_)].tags = s.tags
             /\ IsSome(new_[Len(new_)].end_time)
             /\ new_[Len(new_)].duration > 0]_vars

\* a step of delete_project_sessions(project), and the indices of the stored
\* records it is to remove
DeleteStep(project) ==
    /\ now' = now /\ last'.op = "delete_project_sessions"
    /\ last'.args = <<project>>
    /\ \E w \in BOOLEAN : delete_project_sessions(project, w)
Deletable(sessions, project) ==
    {i \in 1..Len(sessions) :
        /\ sessions[i].session_type = "Stopwatch"
        /\ sessions[i].end_time # None
        /\ sessions[i].tags # <<>>
        /\ sessions[i].tags[1] = project}

\* C12: a successful delete_project_sessions(X) removes exactly the stored
\* sessions that are Stopwatch, have end_time set and have first tag X, returns
\* how many it removed, and leaves every other session in the store, unchanged
\* and in the same relative order.
C12_DeleteRemovesExactly ==
    [][\A x \in Projects : (DeleteStep(x) /\ last'.res.ok) =>
         LET old == Stored(sessions_file)
             new_ == Stored(sessions_file')
             gone == Deletable(old, x)
             kept == (1..Len(old)) \ gone
         IN  /\ last'.res.value = Cardinality(gone)
             /\ Len(new_) = Cardinality(kept)
             /\ \A i \in kept :
                    new_[Cardinality({j \in kept : j <= i})] = old[i]]_vars

C12_Witness ==
    /\ last.op = "delete_project_sessions"
    /\ last.args = <<"A">>
    /\ last.res = Ok(1)
    /\ Len(Stored(sessions_file)) = 2
    /\ Stored(sessions_file)[1].tags = <<"B", "A">>
    /\ Stored(sessions_file)[2].end_time = None

\* C13 as stated: after a successful delete of project P the store holds no
\* session with first tag P and end_time set, whatever its session type, and
\* the count returned is the number of such sessions before the call.
C13_DeleteRemovesEveryType ==
    [][\A x \in Projects : (DeleteStep(x) /\ last'.res.ok) =>
         LET old == Stored(sessions_file)
             new_ == Stored(sessions_file')
             tagged(sessions) ==
                 {i \in 1..Len(sessions) :
                     /\ sessions[i].tags # <<>>
                     /\ sessions[i].tags[1] = x
                     /\ sessions[i].end_time # None}
         IN  /\ tagged(new_) = {}
             /\ last'.res.value = Cardinality(tagged(old))
      ]_<<sessions_file, last.op, last.wrote, last.res.ok>>

\* C13 amended: after a successful delete of project P the store holds no
\* Stopwatch session with first tag P and end_time set, the count returned is
\* the number of such Stopwatch sessions before the call, and the completed
\* sessions of any other type with first tag P are all still stored.
C13_DeleteRemovesStopwatchOnly ==
    [][\A x \in Projects : (DeleteStep(x) /\ last'.res.ok) =>
         LET old == Stored(sessions_file)
             new_ == Stored(sessions_file')
             other(sessions) ==
                 {sessions[i] : i \in
                     {j \in 1..Len(sessions) :
                         /\ sessions[j].tags # <<>>
                         /\ sessions[j].tags[1] = x
                         /\ sessions[j].end_time # None
                         /\ sessions[j].session_type # "Stopwatch"}}
         IN  /\ Deletable(new_, x) = {}
             /\ last'.res.value = Cardinality(Deletable(old, x))
             /\ other(new_) = other(old)]_vars

C13_Witness ==
    /\ last.op = "delete_project_sessions"
    /\ last.args = <<"A">>
    /\ last.res.ok /\ last.res.value >= 1
    /\ \E i \in 1..Len(Stored(sessions_file)) :
          /\ Stored(sessions_file)[i].session_type = "PomodoroWork"
          /\ Stored(sessions_file)[i].tags = <<"A">>
          /\ Stored(sessions_file)[i].end_time # None

\* C14: a delete_project_sessions(X) that directly follows a successful
\* delete_project_sessions(X) returns 0 and performs no write, and a delete
\* that matches no stored record never rewrites the store.
C14_SecondDeleteIsNoOp ==
    [][\A x \in Projects : DeleteStep(x) =>
         /\ (/\ last.op = "delete_project_sessions"
             /\ last.args = <<x>>
             /\ last.res.ok)
            => /\ last'.res = Ok(0)
               /\ ~last'.wrote
               /\ sessions_file' = sessions_file
         /\ (/\ sessions_file.kind # "malformed"
             /\ Deletable(Stored(sessions_file), x) = {})
            => /\ last'.res = Ok(0)
               /\ ~last'.wrote
               /\ sessions_file' = sessions_file]_vars

C14_Witness ==
    /\ last.op = "delete_project_sessions"
    /\ last.args = <<"B">>
    /\ last.res = Ok(0)
    /\ ~last.wrote
    /\ Len(Stored(sessions_file)) = 2
    /\ \A i \in 1..2 : Stored(sessions_file)[i].tags = <<"A">>

\* the stored records that count for a project (Stopwatch, end_time set, first
\* tag the project), those of them that ended on a given date, and the sum of
\* the durations of a set of records
Eligible(sessions, name) ==
    {i \in 1..Len(sessions) :
        /\ sessions[i].session_type = "Stopwatch"
        /\ sessions[i].end_time # None
        /\ sessions[i].tags # <<>>
        /\ sessions[i].tags[1] = name}
EligibleOn(sessions, name, date) ==
    {i \in Eligible(sessions, name) : sessions[i].end_time[1] \div 2 = date}
RECURSIVE SumOfDurations(_, _)
SumOfDurations(sessions, idx) ==
    IF idx = {} THEN 0
    ELSE LET i == CHOOSE i \in idx : TRUE
         IN  sessions[i].duration + SumOfDurations(sessions, idx \ {i})

\* C15: a stored session contributes to the result of get_projects only if it
\* is a Stopwatch session with end_time set and a non-empty tag list, and to
\* the result of get_today_summary only if, in addition, its end_time falls on
\* the current calendar date: every name reported has such a session and its
\* total is made of the durations of such sessions alone.
C15_OnlyCompletedStopwatchCounts ==
    /\ (last.op = "get_projects" /\ last.res.ok) =>
          \A k \in 1..Len(last.res.value) :
              LET entry == last.res.value[k]
                  from == Eligible(Stored(sessions_file), entry[1])
              IN  /\ from # {}
                  /\ entry[2] = SumOfDurations(Stored(sessions_file), from)
    /\ (last.op = "get_today_summary" /\ last.res.ok) =>
          \A name \in DOMAIN last.res.value :
              LET from == EligibleOn(Stored(sessions_file), name,
                                     last.args[1] \div 2)
              IN  /\ from # {}
                  /\ last.res.value[name] =
                         SumOfDurations(Stored(sessions_file), from)

C15_Witness ==
    /\ last.op = "get_today_summary"
    /\ last.args = <<2>>
    /\ last.res.ok
    /\ DOMAIN last.res.value = {"A"}
    /\ last.res.value["A"] = 2
    /\ Len(Stored(sessions_file)) = 3
    /\ \E i \in 1..3 : /\ Stored(sessions_file)[i].tags = <<"A">>
                       /\ Stored(sessions_file)[i].end_time = <<0>>
                       /\ Stored(sessions_file)[i].session_type = "Stopwatch"
    /\ \E i \in 1..3 : Stored(sessions_file)[i].tags = <<>>

\* C16: get_projects returns each project name that has a counting session
\* exactly once, paired with the sum of the durations of that project's
\* counting sessions, in strictly ascending order of name.
C16_ProjectsSortedWithTotals ==
    (last.op = "get_projects" /\ last.res.ok) =>
        LET result == last.res.value
            stored == Stored(sessions_file)
        IN  /\ \A k \in 1..(Len(result) - 1) :
                   name_rank(result[k][1]) < name_rank(result[k + 1][1])
            /\ {result[k][1] : k \in 1..Len(result)} =
                   {name \in Projects : Eligible(stored, name) # {}}
            /\ \A k \in 1..Len(result) :
                   result[k][2] =
                       SumOfDurations(stored, Eligible(stored, result[k][1]))

C16_Witness ==
    /\ last.op = "get_projects"
    /\ last.res.ok
    /\ last.res.value = << <<"A", 3>>, <<"B", 3>> >>
    /\ Stored(sessions_file)[1].tags = <<"B">>

\* C17: get_sessions_for_project(P) returns exactly the stored sessions that
\* are Stopwatch, have end_time set and have first tag P, each once, ordered by
\* end_time descending.
C17_SessionsForProjectNewestFirst ==
    (last.op = "get_sessions_for_project" /\ last.res.ok) =>
        LET result == last.res.value
            stored == Stored(sessions_file)
            from == Eligible(stored, last.args[1])
        IN  /\ Len(result) = Cardinality(from)
            /\ \A i \in from : \E k \in 1..Len(result) : result[k] = stored[i]
            /\ \A k \in 1..Len(result) : \E i \in from : result[k] = stored[i]
            /\ \A k, l \in 1..Len(result) : result[k] = result[l] => k = l
            /\ \A k \in 1..(Len(result) - 1) :
                   result[k].end_time[1] >= result[k + 1].end_time[1]

C17_Witness ==
    /\ last.op = "get_sessions_for_project"
    /\ last.args = <<"A">>
    /\ last.res.ok
    /\ Len(last.res.value) = 2
    /\ last.res.value[1].end_time = <<2>>
    /\ last.res.value[2].end_time = <<0>>
    /\ Len(Stored(sessions_file)) = 3
    /\ Stored(sessions_file)[1].end_time = <<0>>

\* a step of get_sessions
LoadStep ==
    /\ now' = now /\ last'.op = "load_sessions"
    /\ get_sessions

\* C18: load_sessions, called while no sessions file exists, returns the empty
\* collection and no error, and creates nothing: there is still no sessions
\* file after the call.
C18_LoadWithoutFileIsEmpty ==
    [][(LoadStep /\ sessions_file.kind = "missing") =>
          /\ last'.res.ok
          /\ last'.res.value = <<>>
          /\ ~last'.wrote
          /\ sessions_file'.kind = "missing"]_vars

C18_Witness ==
    /\ last.op = "load_sessions"
    /\ last.res.ok
    /\ last.res.value = <<>>
    /\ sessions_file.kind = "missing"
    /\ now = 1

\* C19: load_config, called while no config file exists, returns the default
\* values (25, 5 and 15 minutes, interval 4, both flags false) and persists
\* them: the file exists afterwards and holds the values returned, so that a
\* later load_config returns them again.  A load_config on an existing file
\* returns what the file holds and writes nothing.  (The call on a missing
\* file whose write fails returns Err(Io) and leaves no file.)
C19_LoadConfigCreatesDefault ==
    last.op = "load_config" =>
        \/ /\ last.res.ok /\ last.wrote
           /\ last.res.value =
                  [pomodoro_work_duration |-> 25,
                   pomodoro_short_break_duration |-> 5,
                   pomodoro_long_break_duration |-> 15,
                   long_break_interval |-> 4,
                   auto_start_breaks |-> FALSE,
                   auto_start_work |-> FALSE]
           /\ config_file.kind = "ok"
           /\ config_file.content = last.res.value
        \/ /\ last.res.ok /\ ~last.wrote
           /\ config_file.kind = "ok"
           /\ config_file.content = last.res.value
        \/ /\ ~last.res.ok /\ ~last.wrote
           /\ last.res.err = "Io"
           /\ config_file.kind = "missing"
        \/ /\ ~last.res.ok /\ ~last.wrote
           /\ last.res.err = "Serialization"
           /\ config_file.kind = "malformed"

C19_Witness ==
    /\ last.op = "load_config"
    /\ last.res.ok /\ last.wrote
    /\ last.res.value.pomodoro_work_duration = 25
    /\ config_file.kind = "ok"
    /\ engine = "none"

\* C20: through start, stop and get_current_state the engine is only ever Idle
\* or Running; the state changes only from Idle to Running by a start and from
\* Running to Idle by a stop, a start leaves it Running (from Idle and from
\* Running) and a stop leaves it Idle; Paused and Completed are never reached,
\* paused_time stays zero and pause_start stays unset.
C20_OnlyIdleAndRunning ==
    /\ [](/\ data.state \in {"Idle", "Running"}
          /\ data.paused_time = 0
          /\ data.pause_start = None)
    /\ [][/\ data'.state # data.state =>
                \/ /\ data.state = "Idle" /\ data'.state = "Running"
                   /\ last'.op = "start_work_session"
                \/ /\ data.state = "Running" /\ data'.state = "Idle"
                   /\ last'.op = "stop_timer"
          /\ next_id' # next_id => data'.state = "Running"
          /\ StopStep => data'.state = "Idle"
          /\ GetStep => data'.state = data.state]_vars

C20_Witness ==
    /\ data.state = "Running"
    /\ last.op = "get_current_state"
    /\ Len(Stored(sessions_file)) = 1
    /\ data.elapsed = 1
    /\ data.paused_time = 0
    /\ data.pause_start = None

\* C21: a Running timer that has a target_duration moves from Running to
\* Completed once its elapsed time reaches the target: no read of the state
\* reports a timer as Running with an elapsed time at or over its target.
C21_TargetReachedCompletes ==
    (/\ last.op = "get_current_state"
     /\ IsSome(data.target_duration)
     /\ IsSome(data.start_time)
     /\ data.elapsed >= Unwrap(data.target_duration))
    => data.state = "Completed"

\* C25: a record that stop has stored is immutable: no step of start, stop or
\* get_current_state changes any field of a stored record, moves it or removes
\* it (every record of the store is the same record at the same place after
\* the step).
C25_StoredRecordIsImmutable ==
    [][\A i \in 1..Len(Stored(sessions_file)) :
          /\ i <= Len(Stored(sessions_file'))
          /\ Stored(sessions_file')[i] = Stored(sessions_file)[i]]_vars

C25_Witness ==
    /\ last.op = "stop_timer"
    /\ last.res.ok
    /\ Len(Stored(sessions_file)) = 2
    /\ Stored(sessions_file)[1].id = 1
    /\ Stored(sessions_file)[1].end_time = <<0>>
    /\ Stored(sessions_file)[2].end_time = <<1>>

\* a step of one of the four queries
QueryStep ==
    /\ now' = now
    /\ \/ last'.op = "load_sessions" /\ get_sessions
       \/ last'.op = "get_projects" /\ get_projects
       \/ last'.op = "get_today_summary" /\ get_today_summary
       \/ /\ last'.op = "get_sessions_for_project"
          /\ \E p \in Projects : get_sessions_for_project(p)

\* C26: get_sessions, get_projects, get_today_summary and
\* get_sessions_for_project are read-only and uncached: a query step leaves
\* the store, TimerData and the in-flight session unchanged and writes
\* nothing, and its result is that of the store as it is at the call (all
\* stored sessions; the projects, today's projects or the sessions of the
\* project that have a counting record in it), whatever was returned before.
C26_QueriesReadOnlyUncached ==
    [][QueryStep =>
          /\ sessions_file' = sessions_file
          /\ data' = data
          /\ current_session' = current_session
          /\ ~last'.wrote
          /\ last'.res.ok <=> sessions_file.kind # "malformed"
          /\ last'.res.ok =>
              LET stored == Stored(sessions_file)
                  result == last'.res.value
              IN  CASE last'.op = "load_sessions" -> result = stored
                    [] last'.op = "get_projects" ->
                         {result[k][1] : k \in 1..Len(result)} =
                             {n \in Projects : Eligible(stored, n) # {}}
                    [] last'.op = "get_today_summary" ->
                         DOMAIN result =
                             {n \in Projects :
                                 EligibleOn(stored, n, now \div 2) # {}}
                    [] OTHER ->
                         {result[k].id : k \in 1..Len(result)} =
                             {stored[i].id :
                                 i \in Eligible(stored, last'.args[1])}]_vars

C26_Witness ==
    /\ last.op = "get_projects"
    /\ last.res.ok
    /\ Len(last.res.value) = 1
    /\ last.res.value[1][1] = "B"
    /\ Len(Stored(sessions_file)) = 2
    /\ IsSome(current_session) = FALSE
    /\ now = 2

\* a step of save_session in the query specification
SaveQueryStep(session) ==
    /\ now' = now /\ last'.op = "save_session"
    /\ last'.args = <<session>>
    /\ \E w \in BOOLEAN : call_save_session(session, w)

\* C27: a successful save_session of a session whose id is not stored appends
\* it as the last element, and one of a stored id replaces the record at its
\* position; every other record is unchanged and the order of the records is
\* preserved.
C27_SaveAppendsOrReplacesInPlace ==
    [][\A s \in QuerySessions : (SaveQueryStep(s) /\ last'.res.ok) =>
          LET old == Stored(sessions_file)
              new_ == Stored(sessions_file')
              at == {i \in 1..Len(old) : old[i].id = s.id}
          IN  IF at = {}
              THEN /\ Len(new_) = Len(old) + 1
                   /\ new_[Len(new_)] = s
                   /\ \A i \in 1..Len(old) : new_[i] = old[i]
              ELSE /\ Len(new_) = Len(old)
                   /\ \A i \in 1..Len(old) :
                          new_[i] = IF i \in at THEN s ELSE old[i]]_vars

C27_Witness ==
    /\ last.op = "save_session"
    /\ last.res.ok
    /\ Len(Stored(sessions_file)) = 3
    /\ Stored(sessions_file)[1] = last.args[1]
    /\ Stored(sessions_file)[1].session_type = "PomodoroWork"
    /\ Stored(sessions_file)[2].id = -3
    /\ Stored(sessions_file)[3].id = -2

\* a step of load_config
LoadConfigStep ==
    /\ now' = now /\ last'.op = "load_config"
    /\ \E w \in BOOLEAN : call_load_config(w)

Live == IsSome(event_sender) /\ rx_alive

\* what a start and a stop return and leave behind (result, TimerData,
\* in-flight session, sessions file), told without the subscriber
StartOutcome(timer_type, project_name, description, dt) ==
    <<Ok(<<>>),
      started_data(timer_type, config, now),
      Some(new_session(next_id, timer_type, project_name, description, now + dt)),
      sessions_file>>
StopOutcome(write_ok) ==
    IF IsSome(current_session)
    THEN LET w == save_session(sessions_file,
                      final_session(Unwrap(current_session), data, now), write_ok)
         IN  <<w.res,
               IF w.res.ok THEN TimerDataDefault ELSE [data EXCEPT !.state = "Idle"],
               None,
               w.file>>
    ELSE <<Ok(<<>>), TimerDataDefault, None, sessions_file>>

\* C24: event publication is never fatal: whether no subscriber is registered,
\* the subscriber's receiver is dropped or a subscriber is live, a start and a
\* stop return the same result and leave the same TimerData, in-flight session
\* and store content.
C24_PublicationNeverFatal ==
    [][/\ next_id' # next_id =>
            \E t \in TimerType, dt \in 0..1 :
                /\ last'.args = <<t, None, None>> /\ now' = now + dt
                /\ <<last'.res, data', current_session', sessions_file'>> =
                       StartOutcome(t, None, None, dt)
       /\ (now' = now /\ last'.op = "stop_timer"
           /\ \E w \in BOOLEAN : stop_timer(w)) =>
            \E w \in BOOLEAN :
                <<last'.res, data', current_session', sessions_file'>> =
                    StopOutcome(w)]_vars

C24_Witness ==
    /\ last.op = "stop_timer"
    /\ last.res.ok
    /\ IsSome(event_sender) /\ ~rx_alive
    /\ Len(Stored(sessions_file)) = 1
    /\ data = TimerDataDefault
    /\ discarded = {}

\* C29: with a live subscriber every start publishes exactly one Started and
\* every stop that returns success exactly one Stopped, each behind the events
\* of the operations that took effect before it; a stop that returns an error
\* and a read of the state publish nothing, and no other kind of event is ever
\* published.
C29_EventsFollowOperations ==
    /\ [](\A i \in 1..Len(events) : events[i] \in {"Started", "Stopped"})
    /\ [][Live =>
            /\ next_id' # next_id => events' = Append(events, "Started")
            /\ StopStep =>
                 events' = IF last'.res.ok THEN Append(events, "Stopped")
                           ELSE events
            /\ GetStep => events' = events]_vars

C29_Witness ==
    /\ Live
    /\ events = <<"Started", "Stopped">>
    /\ last.op = "stop_timer"
    /\ Len(Stored(sessions_file)) = 1

Consistent ==
    IF data.state = "Running"
    THEN /\ IsSome(current_session)
         /\ Unwrap(current_session).id = last_start
         /\ Unwrap(current_session).session_type = data.timer_type
    ELSE current_session = None

\* C22: under concurrent callers a start or stop excludes every other start,
\* stop and get_current_state for the whole of its mutation: at most one
\* caller is past the acquisition of the data lock, a caller that starts to
\* read (a get_current_state or a stop that has just got the lock, a start
\* likewise) finds TimerData and the in-flight session in a complete
\* combination, and the session a stop saves is the one created by the start
\* that returned last before it.
C22_WritesExcludeEveryone ==
    /\ Cardinality({c \in Callers : pc[c].at \notin {"idle", "lock_data"}}) <= 1
    /\ \A c \in Callers :
          /\ pc[c].at \in {"read_state", "set_idle", "read_config"} => Consistent
          /\ pc[c].at \notin {"idle", "lock_data"} => locks.data = c
          /\ pc[c].at = "save_session" =>
                Unwrap(pc[c].session).id = last_start

C22_Witness ==
    /\ pc[1].at = "save_session"
    /\ pc[2].at = "lock_data"
    /\ pc[2].op = "start_work_session"
    /\ last_start = 1
    /\ Len(Stored(sessions_file)) = 0

\* C23: no operation blocks indefinitely: with concurrent start, stop and
\* get_current_state callers and fair scheduling every call that was entered
\* returns (the locks on data, config and the in-flight session are taken in
\* one order, data first).
C23_EveryCallReturns ==
    \A c \in Callers : (pc[c].at # "idle") ~> (pc[c].at = "idle")

C23_Witness ==
    /\ pc[1].at = "lock_data"
    /\ pc[2].at = "save_session"
    /\ locks.data = 2 /\ locks.session = 2


\* C31: the duration a successful stop persists is the elapsed value stored by
\* the most recent get_current_state since the last start, and zero when the
\* call before the stop was that start; the clock at the stop plays no part.
\* While a session is in flight the last call is its start or a later
\* get_current_state.
C31_DurationIsLastPolledElapsed ==
    /\ [](IsSome(current_session) =>
            last.op \in {"start_work_session", "get_current_state"})
    /\ [][(StopStep /\ IsSome(current_session) /\ last'.res.ok) =>
            \A i \in StoredWithId(sessions_file', Unwrap(current_session).id) :
               Stored(sessions_file')[i].duration =
                  IF last.op = "get_current_state"
                  THEN last.res.value.elapsed
                  ELSE 0]_vars

\* a stop has persisted a session that ran for one unit of the clock with a
\* duration of zero
C31_Witness ==
    /\ last.op = "stop_timer" /\ last.res.ok /\ last.wrote
    /\ \E i \in 1..Len(Stored(sessions_file)) :
          LET s == Stored(sessions_file)[i]
          IN  /\ s.duration = 0
              /\ s.start_time = 0
              /\ s.end_time = Some(1)


\* a stop of an in-flight session whose save returns an error, and the first
\* stop issued after such a stop
FailedStop == StopStep /\ IsSome(current_session) /\ ~last'.res.ok
RetriedStop == StopStep /\ last.op = "stop_timer" /\ ~last.res.ok

\* what a failed stop does, and why the session it dropped is never stored:
\* a record enters the store only from the in-flight session of a successful
\* stop, and every in-flight session is installed with a fresh id
FailedStopDropsSession ==
    /\ [][FailedStop =>
            /\ last'.res = Err("Io")
            /\ data' = [data EXCEPT !.state = "Idle"]
            /\ data'.start_time # None
            /\ current_session' = None
            /\ sessions_file' = sessions_file
            /\ events' = events]_vars
    /\ [][\A id \in StoredIds(sessions_file') \ StoredIds(sessions_file) :
            /\ IsSome(current_session) /\ id = Unwrap(current_session).id
            /\ last'.op = "stop_timer" /\ last'.res.ok]_vars
    /\ [][/\ next_id' >= next_id
          /\ (IsSome(current_session') /\ current_session' # current_session)
             => /\ Unwrap(current_session').id = next_id
                /\ next_id' = next_id + 1]_vars

C33_StopSurvivesConcurrentDelete ==
    \A s, d \in Callers :
       (/\ pc[s].at = "returned" /\ pc[s].op = "stop_timer"
        /\ pc[s].ok /\ IsSome(pc[s].session)
        /\ pc[d].at = "returned" /\ pc[d].op = "delete_project_sessions"
        /\ pc[d].ok
        /\ Unwrap(pc[s].session).id \in pc[d].met
        /\ Unwrap(pc[s].session).tags # <<pc[d].project>>)
       => /\ Unwrap(pc[s].session).id \in StoredIds(sessions_file)
          /\ Deletable(Stored(sessions_file), pc[d].project) = {}


\* a map without the entry of one key
without(map, key) == [k \in (DOMAIN map) \ {key} |-> map[k]]

\* the dates get_today_summary can take for today
Dates == {date_naive(t) : t \in 0..MaxClock}

\* C34: the count a successful delete_project_sessions(P) returns is the
\* length of the get_sessions_for_project(P) result taken just before it; in
\* the query made just after a successful delete of P,
\* get_sessions_for_project(P) is empty and P is in neither get_projects nor
\* get_today_summary; and the delete leaves the totals of every other
\* project, overall and for each day, as they were.
C34_DeleteAgreesWithQueries ==
    /\ [][\A x \in Projects : (DeleteStep(x) /\ last'.res.ok) =>
            LET old == Stored(sessions_file)
                new_ == Stored(sessions_file')
            IN  /\ (/\ last.op = "get_sessions_for_project"
                    /\ last.args = <<x>>
                    /\ last.res.ok)
                   => last'.res.value = Len(last.res.value)
                /\ without(project_totals(new_), x) =
                      without(project_totals(old), x)
                /\ \A day \in Dates :
                      without(today_totals(new_, day), x) =
                         without(today_totals(old, day), x)]_vars
    /\ [][(/\ last.op = "delete_project_sessions"
           /\ last.res.ok
           /\ QueryStep) =>
            LET x == last.args[1]
                result == last'.res.value
            IN  /\ last'.res.ok
                /\ CASE last'.op = "get_sessions_for_project" ->
                           last'.args = <<x>> => result = <<>>
                     [] last'.op = "get_projects" ->
                           \A k \in 1..Len(result) : result[k][1] # x
                     [] last'.op = "get_today_summary" ->
                           x \notin DOMAIN result
                     [] OTHER -> TRUE]_<<last.op, last.res.ok>>

\* delete_project_sessions("B") has removed two sessions and the one session
\* of project A is still stored
C34_Witness ==
    /\ last.op = "delete_project_sessions"
    /\ last.args = <<"B">>
    /\ last.res = Ok(2)
    /\ Len(Stored(sessions_file)) = 1
    /\ counts_as_project(Stored(sessions_file)[1])
    /\ Stored(sessions_file)[1].tags[1] = "A"


\* C35: at most one display task is alive at any time; a display task ends
\* in the step in which it takes the stop signal or polls an Idle engine, and
\* in no other; and every stop_timer_display returns, also one that joins a
\* task that has ended by itself.
C35_OneDisplayTaskAndStopReturns ==
    /\ [](Cardinality(display.alive) <= 1)
    /\ [][\A t \in Tasks :
            /\ display_recv(t) => t \notin display'.alive
            /\ display_tick(t) => (t \notin display'.alive <=> data.state = "Idle")
            /\ (t \in display.alive /\ t \notin display'.alive)
               => t \in display.signal \/ data.state = "Idle"]_vars
    /\ (display.at \in {"stop_send", "stop_take", "stop_join", "stop_reset"})
          ~> (display.at \in {"idle", "spawn"})

\* stop_timer_display waits for a task that ended on polling an Idle engine
C35_Witness ==
    /\ display.at = "stop_join"
    /\ display.op = "stop_timer_display"
    /\ display.joining \in display.exited
    /\ display.joining \notin display.alive

=============================================================================
